---- MODULE Spec2Model ----
(***************************************************************************)
(* A model of the clap command-line parser engine (src/src/app.rs,         *)
(* src/src/args/arg.rs): the builder calls that register a schema, the     *)
(* positional pre-flight, the token loop of get_matches_from with its       *)
(* long/short/positional handlers, and the post-loop validation.           *)
(*                                                                         *)
(* Text (names, longs, tokens, values) is a sequence of one-character      *)
(* strings, so that starts_with, trim_left_matches, split and len are      *)
(* computed as the code computes them (the code's local `arg`, the token,  *)
(* is `tok` here: `arg` names App::arg).  Option<T> is a sequence of length  *)
(* 0 (None) or 1 (Some).  Maps and sets of the code (BTreeMap, HashMap,    *)
(* HashSet) are functions with a finite domain and sets.                   *)
(***************************************************************************)
EXTENDS Integers, Sequences, FiniteSets, TLC

VARIABLES
    self,          \* the App whose get_matches_from is running (or the built App before get_matches)
    matches,       \* the ArgMatches being filled for self
    parents,       \* the finished frames of the enclosing commands: <<[app, matches]>>, outermost first
    pos_only,      \* get_matches_from local
    pos_counter,   \* get_matches_from local
    needs_val_of,  \* get_matches_from local: Option<name>
    consumed,      \* the tokens the iterator `it` has yielded so far (argv[1..])
    last,          \* how the loop classified the last token it consumed
    pc,            \* "built" | "loop" | "exit" | "returned"
    outcome,       \* what was reported and the exit status: [msg, code]
    result,        \* Option<ArgMatches>: what get_matches returned
    argv0,         \* Option<Text>: the first element of env::args()
    argv_pool,     \* the tokens the environment may pass after argv[0]
    group_order,   \* the iteration order of the HashMap `groups` in this process
    usage          \* the running Arg::from_usage: its parser's tokens and its locals

vars == <<self, matches, parents, pos_only, pos_counter, needs_val_of,
          consumed, last, pc, outcome, result, argv0, argv_pool, group_order, usage>>

----------------------------------------------------------------------------
(* Option<T> *)

None == <<>>

Some(x) == <<x>>

is_some(o) == o # <<>>

is_none(o) == o = <<>>

unwrap(o) == o[1]

----------------------------------------------------------------------------
(* Maps *)

EmptyMap == [k \in {} |-> k]

contains_key(m, k) == k \in DOMAIN m

insert(m, k, v) == [x \in DOMAIN m \cup {k} |-> IF x = k THEN v ELSE m[x]]

\* Vec<&str> -> HashSet<&str>, as the loops over a.blacklist, a.requires, a.possible_vals do
Range(s) == {s[i] : i \in DOMAIN s}

to_set(ov) == IF is_some(ov) THEN Some(Range(unwrap(ov))) ELSE None

(* the members of an Option<HashSet>, none for None *)
members(os) == IF is_some(os) THEN unwrap(os) ELSE {}

----------------------------------------------------------------------------
(* str operations *)

starts_with(s, p) == Len(s) >= Len(p) /\ SubSeq(s, 1, Len(p)) = p

RECURSIVE trim_left_matches(_)
(* s.trim_left_matches(|c| c == '-') *)
trim_left_matches(s) ==
    IF s # <<>> /\ Head(s) = "-" THEN trim_left_matches(Tail(s)) ELSE s

contains_eq(s) == \E i \in DOMAIN s : s[i] = "="

RECURSIVE split(_)
(* s.split("=").collect::<Vec<&str>>() *)
split(s) ==
    IF ~contains_eq(s) THEN <<s>>
    ELSE LET i == CHOOSE j \in DOMAIN s : s[j] = "=" /\ \A k \in 1..(j-1) : s[k] # "="
         IN <<SubSeq(s, 1, i-1)>> \o split(SubSeq(s, i+1, Len(s)))

RECURSIVE file_name(_)
(* Path::new(name).file_name(): the final component of the path *)
file_name(p) ==
    IF \E i \in DOMAIN p : p[i] = "/"
    THEN LET i == CHOOSE j \in DOMAIN p : p[j] = "/" /\ \A k \in (j+1)..Len(p) : p[k] # "/"
         IN IF i = Len(p) THEN file_name(SubSeq(p, 1, i-1)) ELSE Some(SubSeq(p, i+1, Len(p)))
    ELSE IF p = <<>> \/ p = <<".", ".">> THEN None ELSE Some(p)

----------------------------------------------------------------------------
(* Names the code spells out *)

T_help == <<"h","e","l","p">>

T_version == <<"v","e","r","s","i","o","n">>

T_hclap_help == <<"h","c","l","a","p","_","h","e","l","p">>

T_vclap_version == <<"v","c","l","a","p","_","v","e","r","s","i","o","n">>

----------------------------------------------------------------------------
(* Arg and its builder methods (src/src/args/arg.rs) *)

with_name(n) ==
    [name |-> n, short |-> None, long |-> None, required |-> FALSE,
     takes_value |-> FALSE, multiple |-> FALSE, index |-> None,
     possible_vals |-> None, blacklist |-> None, requires |-> None, group |-> None]

short(a, s) == [a EXCEPT !.short = IF trim_left_matches(s) = <<>> THEN None
                                   ELSE Some(Head(trim_left_matches(s)))]

long(a, l) == [a EXCEPT !.long = Some(trim_left_matches(l))]

required(a, r) == [a EXCEPT !.required = r]

conflicts_with(a, name) ==
    [a EXCEPT !.blacklist = IF is_some(@) THEN Some(Append(unwrap(@), name)) ELSE Some(<<name>>)]

requires(a, name) ==
    [a EXCEPT !.requires = IF is_some(@) THEN Some(Append(unwrap(@), name)) ELSE Some(<<name>>)]

takes_value(a, tv) == [a EXCEPT !.takes_value = tv]

index(a, idx) == [a EXCEPT !.index = Some(idx)]

multiple(a, multi) == [a EXCEPT !.multiple = multi]

possible_values(a, names) ==
    [a EXCEPT !.possible_vals = IF is_some(@) THEN Some(unwrap(@) \o names) ELSE Some(names)]

group(a, name) == [a EXCEPT !.group = Some(name)]

----------------------------------------------------------------------------
(* ArgGroup: its record and builder, as the data model describes it *)

ArgGroup_with_name(n) ==
    [name |-> n, args |-> {}, required |-> FALSE, requires |-> None, conflicts |-> None]

ArgGroup_add_all(g, ns) == [g EXCEPT !.args = @ \cup ns]

ArgGroup_required(g, r) == [g EXCEPT !.required = r]

ArgGroup_requires(g, n) == [g EXCEPT !.requires = Some(members(@) \cup {n})]

ArgGroup_conflicts_with(g, n) == [g EXCEPT !.conflicts = Some(members(@) \cup {n})]

----------------------------------------------------------------------------
(* App: construction and registration (src/src/app.rs) *)

(* a panic!: the builder call does not return *)
Panic(what) == [panic |-> what]

IsPanic(x) == DOMAIN x = {"panic"}

App_new(n) ==
    [name |-> n,
     flags |-> EmptyMap, opts |-> EmptyMap, positionals_idx |-> EmptyMap,
     subcommands |-> EmptyMap,
     needs_long_version |-> TRUE, needs_long_help |-> TRUE, needs_short_help |-> TRUE,
     needs_subcmd_help |-> TRUE, needs_short_version |-> TRUE,
     required |-> {}, matched_reqs |-> {}, arg_list |-> {}, short_list |-> {},
     long_list |-> {}, usage_str |-> None, blacklist |-> {}, bin_name |-> None,
     groups |-> EmptyMap]

(* `as u8` *)
U8 == 256

(* line 276: the index of a positional *)
positional_index(s, a) ==
    IF is_none(a.index) THEN (Cardinality(DOMAIN s.positionals_idx) + 1) % U8
    ELSE unwrap(a.index)

(* lines 275-323: the positional branch of App::arg *)
arg_positional(s, a) ==
    IF is_some(a.short) \/ is_some(a.long) THEN Panic("index with short or long")
    ELSE IF contains_key(s.positionals_idx, positional_index(s, a)) THEN Panic("same index")
    ELSE IF a.takes_value THEN Panic("index with takes_value")
    ELSE [s EXCEPT !.positionals_idx = insert(@, positional_index(s, a),
             [name |-> a.name, index |-> positional_index(s, a), required |-> a.required,
              multiple |-> a.multiple, blacklist |-> to_set(a.blacklist),
              requires |-> to_set(a.requires),
              possible_vals |-> to_set(a.possible_vals)])]

(* lines 324-361: the option branch of App::arg *)
arg_option(s, a) ==
    IF is_none(a.short) /\ is_none(a.long) THEN Panic("takes_value without short or long")
    ELSE [s EXCEPT !.opts = insert(@, a.name,
             [name |-> a.name, short |-> a.short, long |-> a.long,
              multiple |-> a.multiple, blacklist |-> to_set(a.blacklist),
              possible_vals |-> to_set(a.possible_vals),
              requires |-> to_set(a.requires), required |-> a.required])]

(* the flag branch without its two checks *)
arg_flag_unchecked(s, a) ==
    [s EXCEPT !.flags = insert(@, a.name,
        [name |-> a.name, short |-> a.short, long |-> a.long,
         blacklist |-> to_set(a.blacklist), multiple |-> a.multiple,
         requires |-> to_set(a.requires)])]

(* lines 362-399: the flag branch of App::arg *)
arg_flag(s, a) ==
    IF a.required THEN Panic("required flag")
    ELSE IF is_some(a.possible_vals) THEN Panic("possible_vals on a flag")
    ELSE [s EXCEPT !.flags = insert(@, a.name,
             [name |-> a.name, short |-> a.short, long |-> a.long,
              blacklist |-> to_set(a.blacklist), multiple |-> a.multiple,
              requires |-> to_set(a.requires)])]

(* lines 272-399: the required set, then the store of the category *)
arg_store(s, a) ==
    IF is_some(a.index) \/ (is_none(a.short) /\ is_none(a.long)) THEN arg_positional(s, a)
    ELSE IF a.takes_value THEN arg_option(s, a)
    ELSE arg_flag(s, a)

arg_required(s, a) ==
    arg_store(IF a.required THEN [s EXCEPT !.required = @ \cup {a.name}] ELSE s, a)

(* lines 260-271 *)
arg_long(s, a) ==
    IF is_none(a.long) THEN arg_required(s, a)
    ELSE IF unwrap(a.long) \in s.long_list THEN Panic("long in use")
    ELSE arg_required(
           [s EXCEPT !.long_list = @ \cup {unwrap(a.long)},
                     !.needs_long_help = IF unwrap(a.long) = T_help THEN FALSE ELSE @,
                     !.needs_long_version =
                         IF unwrap(a.long) # T_help /\ unwrap(a.long) = T_version
                         THEN FALSE ELSE @], a)

(* the short of a declaration taken without looking at short_list *)
arg_short_unchecked(s, a) ==
    IF is_none(a.short) THEN arg_long(s, a)
    ELSE arg_long([s EXCEPT !.short_list = @ \cup {unwrap(a.short)}], a)

(* lines 248-259 *)
arg_short(s, a) ==
    IF is_none(a.short) THEN arg_long(s, a)
    ELSE IF unwrap(a.short) \in s.short_list THEN Panic("short in use")
    ELSE arg_long(
           [s EXCEPT !.short_list = @ \cup {unwrap(a.short)},
                     !.needs_short_help = IF unwrap(a.short) = "h" THEN FALSE ELSE @,
                     !.needs_short_version =
                         IF unwrap(a.short) # "h" /\ unwrap(a.short) = "v" THEN FALSE ELSE @], a)

(* self.groups.entry(grp).or_insert(ArgGroup::with_name(grp)) *)
group_entry(s, grp) ==
    IF contains_key(s.groups, grp) THEN s.groups[grp] ELSE ArgGroup_with_name(grp)

(* lines 240-247: self.groups.entry(grp).or_insert(ArgGroup::with_name(grp)).args.insert(a.name) *)
arg_in_group(s, a) ==
    IF is_none(a.group) THEN arg_short(s, a)
    ELSE arg_short(
           [s EXCEPT !.groups =
               insert(s.groups, unwrap(a.group),
                      [name |-> unwrap(a.group),
                       args |-> group_entry(s, unwrap(a.group)).args \cup {a.name},
                       required |-> group_entry(s, unwrap(a.group)).required,
                       requires |-> group_entry(s, unwrap(a.group)).requires,
                       conflicts |-> group_entry(s, unwrap(a.group)).conflicts])], a)

(* App::arg *)
arg(app, a) ==
    IF a.name \in app.arg_list THEN Panic("name in use")
    ELSE arg_in_group([app EXCEPT !.arg_list = @ \cup {a.name}], a)

(* lines 514-526: merge into the group of that name, or insert *)
arg_group_merge(s, g) ==
    IF contains_key(s.groups, g.name)
    THEN [s EXCEPT !.groups[g.name] =
             [@ EXCEPT !.args = @ \cup g.args, !.requires = g.requires,
                       !.conflicts = g.conflicts, !.required = g.required]]
    ELSE [s EXCEPT !.groups = insert(@, g.name, g)]

(* App::arg_group *)
arg_group(app, g) ==
    arg_group_merge(IF g.required
                    THEN [app EXCEPT !.required = @ \cup {g.name} \cup members(g.requires),
                                     !.blacklist = @ \cup members(g.conflicts)]
                    ELSE app, g)

(* App::subcommand *)
subcommand(app, subcmd) ==
    [app EXCEPT !.needs_subcmd_help = IF subcmd.name = T_help THEN FALSE ELSE @,
                !.subcommands = insert(@, subcmd.name, subcmd)]

----------------------------------------------------------------------------
(* Pre-flight and auto help/version *)

Max(S) == CHOOSE x \in S : \A y \in S : y <= x

(* no positional is below a required one *)
below_required_none(idx) == {}

(* lines 964-974: the positionals below the highest required one *)
below_required(idx) ==
    {i \in DOMAIN idx : \E j \in DOMAIN idx : idx[j].required /\ i < j}

(* verify_positionals without the check of the `multiple` positionals *)
verify_positionals_unordered(s) ==
    IF /\ DOMAIN s.positionals_idx # {}
       /\ Max(DOMAIN s.positionals_idx) # Cardinality(DOMAIN s.positionals_idx)
    THEN Panic("positional index gap")
    ELSE [s EXCEPT !.positionals_idx =
                      [i \in DOMAIN @ |-> IF i \in below_required(@)
                                          THEN [@[i] EXCEPT !.required = TRUE] ELSE @[i]],
                   !.required = @ \cup {s.positionals_idx[i].name :
                                           i \in below_required(s.positionals_idx)}]

(* App::verify_positionals *)
verify_positionals(s) ==
    IF /\ DOMAIN s.positionals_idx # {}
       /\ Max(DOMAIN s.positionals_idx) # Cardinality(DOMAIN s.positionals_idx)
    THEN Panic("positional index gap")
    ELSE IF \E i \in DOMAIN s.positionals_idx :
               /\ s.positionals_idx[i].multiple
               /\ s.positionals_idx[i].index # Cardinality(DOMAIN s.positionals_idx)
    THEN Panic("multiple is not the last positional")
    ELSE [s EXCEPT !.positionals_idx =
                      [i \in DOMAIN @ |-> IF i \in below_required(@)
                                          THEN [@[i] EXCEPT !.required = TRUE] ELSE @[i]],
                   !.required = @ \cup {s.positionals_idx[i].name :
                                           i \in below_required(s.positionals_idx)}]

(* lines 1153-1167 *)
create_help(s) ==
    IF s.needs_long_help
    THEN [s EXCEPT !.flags = insert(@, T_hclap_help,
             [name |-> T_hclap_help,
              short |-> IF s.needs_short_help THEN Some("h") ELSE None,
              long |-> Some(T_help), blacklist |-> None, multiple |-> FALSE,
              requires |-> None])]
    ELSE s

(* lines 1168-1183 *)
create_version(s) ==
    IF s.needs_long_version
    THEN [s EXCEPT !.flags = insert(@, T_vclap_version,
             [name |-> T_vclap_version,
              short |-> IF s.needs_short_version THEN Some("v") ELSE None,
              long |-> Some(T_version), blacklist |-> None, multiple |-> FALSE,
              requires |-> None])]
    ELSE s

(* lines 1184-1186 *)
create_subcmd_help(s) ==
    IF s.needs_subcmd_help /\ DOMAIN s.subcommands # {}
    THEN [s EXCEPT !.subcommands = insert(@, T_help, App_new(T_help))]
    ELSE s

(* App::create_help_and_version *)
create_help_and_version(s) == create_subcmd_help(create_version(create_help(s)))

----------------------------------------------------------------------------
(* Reports and exits.  A context c carries the App, its ArgMatches, and   *)
(* `out`: Running, or what was reported with the exit status.  Once `out` *)
(* is set the process has exited and nothing else of the handler runs.    *)

Running == [msg |-> "running", code |-> -1]

(* report_error(msg, usage, quit = false): print and go on *)
report_error_and_go_on(c, msg) == c

(* report_error(msg, usage, quit = true): print and exit(1) *)
report_error(c, msg) == [c EXCEPT !.out = [msg |-> msg, code |-> 1]]

(* print_help: print and exit(0) *)
print_help(c) == [c EXCEPT !.out = [msg |-> "help", code |-> 0]]

(* print_version(quit = true): print and exit(0) *)
print_version(c) == [c EXCEPT !.out = [msg |-> "version", code |-> 0]]

ArgMatches_new == [args |-> EmptyMap, subcommand |-> None, usage |-> None]

----------------------------------------------------------------------------
(* Constraint bookkeeping shared by the match sites *)

\* for name in bl { self.blacklist.insert(name); self.required.remove(name); }
add_blacklist(s, v) ==
    [s EXCEPT !.blacklist = @ \cup members(v.blacklist),
              !.required = @ \ members(v.blacklist)]

\* for n in reqs { matched_reqs.insert(n); if matches.args.contains_key(n) {continue;} required.insert(n); }
add_requires(s, m, v) ==
    [s EXCEPT !.matched_reqs = @ \cup members(v.requires),
              !.required = @ \cup {n \in members(v.requires) : ~contains_key(m.args, n)}]

remove_required(s, v) == [s EXCEPT !.required = @ \ {v.name}]

(* the groups of s in the order the HashMap iterates them *)
groups_iter(s, order) == SelectSeq(order, LAMBDA g : g \in DOMAIN s.groups)

(* one group of parse_group_reqs!: the group of a matched member is       *)
(* satisfied, what it requires becomes required, what it conflicts with   *)
(* and every other member is blacklisted and no longer required           *)
parse_group_req(s, name, ag) ==
    IF name \in ag.args
    THEN [s EXCEPT
            !.required = ((@ \ {ag.name}) \cup members(ag.requires)) \ (ag.args \ {name}),
            !.blacklist = @ \cup members(ag.conflicts) \cup (ag.args \ {name})]
    ELSE s

RECURSIVE parse_group_reqs_from(_, _, _)
parse_group_reqs_from(s, name, gs) ==
    IF gs = <<>> THEN s
    ELSE parse_group_reqs_from(parse_group_req(s, name, s.groups[Head(gs)]), name, Tail(gs))

(* parse_group_reqs!(self, v) *)
parse_group_reqs(s, v) == parse_group_reqs_from(s, v.name, groups_iter(s, group_order))

(* a blacklist entry of a declaration is matched, by name or through a group *)
blacklist_matched(s, m, bl) ==
    \E n \in members(bl) :
        \/ contains_key(m.args, n)
        \/ /\ contains_key(s.groups, n)
           /\ \E an \in s.groups[n].args : contains_key(m.args, an)

(* validate_reqs!(self, store, matches, name): TRUE when it returns false *)
(* from validate_required, i.e. name is in the store and is demoted       *)
validate_reqs(s, store, m, name) ==
    contains_key(store, name) /\ blacklist_matched(s, m, store[name].blacklist)

(* validate_required that demotes nothing: whatever is left is missing *)
validate_required_undemoted(s, m) == TRUE

(* App::validate_required: TRUE when required arguments are missing *)
validate_required(s, m) ==
    ~ \E name \in s.required :
         \/ validate_reqs(s, s.flags, m, name)
         \/ validate_reqs(s, s.opts, m, name)
         \/ \E i \in DOMAIN s.positionals_idx :
               /\ s.positionals_idx[i].name = name
               /\ blacklist_matched(s, m, s.positionals_idx[i].blacklist)

(* validate_blacklist without its loop: nothing is reported *)
validate_blacklist_skipped(s, m) == FALSE

(* App::validate_blacklist: TRUE when it reports the conflict error *)
validate_blacklist(s, m) ==
    \E name \in s.blacklist :
        \/ contains_key(m.args, name)
        \/ /\ contains_key(s.groups, name)
           /\ \E n \in s.groups[name].args : contains_key(m.args, n)

(* App::create_usage: what the usage line is made of *)
create_usage(s) ==
    [custom |-> s.usage_str,
     bin |-> IF is_some(s.bin_name) THEN unwrap(s.bin_name) ELSE s.name,
     flags |-> DOMAIN s.flags # {}, opts |-> DOMAIN s.opts # {},
     pos |-> DOMAIN s.positionals_idx # {}, subcmds |-> DOMAIN s.subcommands # {}]

----------------------------------------------------------------------------
(* The token handlers.  A context c is a record                           *)
(*   self, matches          the App and the ArgMatches being filled        *)
(*   pos_only, pos_counter, needs_val_of, subcmd_name   the loop's locals  *)
(*   out                    Running, or the report and exit status         *)
(*   ret, found             the value a handler returns                    *)
(*   class, hits            what the token was taken as, and the names of  *)
(*                          the declarations it was looked up as           *)

hit(c, v) == [c EXCEPT !.hits = Append(@, v.name)]

(* .nth(0) of a filtered iteration over a store: shorts and longs are    *)
(* unique in a command, so the filter yields at most one                  *)
first_key(S) == CHOOSE n \in S : TRUE

(* self.flags.values().filter(short is ch) *)
flags_with_short(s, ch) ==
    {n \in DOMAIN s.flags : is_some(s.flags[n].short) /\ unwrap(s.flags[n].short) = ch}

(* self.opts.values().filter(short is ch) *)
opts_with_short(s, ch) ==
    {n \in DOMAIN s.opts : is_some(s.opts[n].short) /\ unwrap(s.opts[n].short) = ch}

(* self.flags.values().filter(long is l) *)
flags_with_long(s, l) ==
    {n \in DOMAIN s.flags : is_some(s.flags[n].long) /\ unwrap(s.flags[n].long) = l}

(* self.opts.values().filter(long is l) *)
opts_with_long(s, l) ==
    {n \in DOMAIN s.opts : is_some(s.opts[n].long) /\ unwrap(s.opts[n].long) = l}

(* check_for_help_and_version that ignores what the user claimed *)
check_for_help_and_version_unclaimed(c, ch) ==
    IF ch = "h" THEN print_help(c)
    ELSE IF ch = "v" THEN print_version(c)
    ELSE c

(* App::check_for_help_and_version *)
check_for_help_and_version(c, ch) ==
    IF ch = "h" /\ c.self.needs_short_help THEN print_help(c)
    ELSE IF ch = "v" /\ c.self.needs_short_version THEN print_version(c)
    ELSE c

(* lines 1299-1311, 1432-1443: the occurrence of a flag *)
flag_occurrence(m, v) ==
    IF contains_key(m.args, v.name)
    THEN [m EXCEPT !.args[v.name].occurrences = IF v.multiple THEN @ + 1 ELSE 1]
    ELSE [m EXCEPT !.args = insert(@, v.name, [occurrences |-> 1, values |-> None])]

(* the bookkeeping of a flag without its parse_group_reqs! *)
flag_bookkeeping_ungrouped(s, m, v) ==
    add_requires(add_blacklist(remove_required(s, v), v), m, v)

(* lines 1313-1335, 1445-1467: required, blacklist, requires, groups of a flag *)
flag_bookkeeping(s, m, v) ==
    parse_group_reqs(add_requires(add_blacklist(remove_required(s, v), v), m, v), v)

(* lines 1259-1279, 1388-1408, 1089-1108: of an option or a positional *)
value_bookkeeping(s, m, v) ==
    parse_group_reqs(add_requires(remove_required(add_blacklist(s, v), v), m, v), v)

flag_recorded(c, m, v) ==
    [c EXCEPT !.self = flag_bookkeeping(c.self, m, v), !.matches = m]

value_recorded(c, m, v) ==
    [c EXCEPT !.self = value_bookkeeping(c.self, m, v), !.matches = m]

(* the flag found by its short, counted however often it is supplied *)
short_flag_matched_again(c, v) ==
    IF v.name \in c.self.blacklist THEN report_error(c, "conflict")
    ELSE [flag_recorded(c, flag_occurrence(c.matches, v), v) EXCEPT !.found = TRUE]

(* the flag found by App::parse_single_short_flag, lines 1421-1469 *)
short_flag_matched(c, v) ==
    IF v.name \in c.self.blacklist THEN report_error(c, "conflict")
    ELSE IF contains_key(c.matches.args, v.name) /\ ~v.multiple THEN report_error(c, "repeat")
    ELSE [flag_recorded(c, flag_occurrence(c.matches, v), v) EXCEPT !.found = TRUE]

(* App::parse_single_short_flag *)
parse_single_short_flag(c, ch) ==
    IF flags_with_short(c.self, ch) # {}
    THEN short_flag_matched(hit(c, c.self.flags[first_key(flags_with_short(c.self, ch))]),
                            c.self.flags[first_key(flags_with_short(c.self, ch))])
    ELSE [c EXCEPT !.found = FALSE]

(* line 1352: if !self.parse_single_short_flag(matches, c) { report_error } *)
cluster_flag_or_error(r) ==
    IF r.out = Running /\ ~r.found THEN report_error(r, "unknown") ELSE r

(* lines 1351-1354: one character of a cluster *)
cluster_char(c, ch) ==
    IF c.out # Running THEN c
    ELSE cluster_flag_or_error(parse_single_short_flag(c, ch))

RECURSIVE parse_short_cluster(_, _)
(* App::parse_short_arg, lines 1348-1357: for c in arg.chars() *)
parse_short_cluster(c, chars) ==
    IF c.out # Running THEN c
    ELSE IF chars = <<>> THEN [c EXCEPT !.ret = None]
    ELSE parse_short_cluster(
           cluster_char(check_for_help_and_version(c, Head(chars)), Head(chars)), Tail(chars))

(* lines 1376-1387: the entry of an option found by its short *)
short_opt_occurrence(m, v) ==
    IF contains_key(m.args, v.name) THEN m
    ELSE [m EXCEPT !.args = insert(@, v.name, [occurrences |-> 0, values |-> Some(<<>>)])]

(* App::parse_short_arg, lines 1369-1411: the option with this short *)
short_opt_matched(c, v) ==
    IF v.name \in c.self.blacklist THEN report_error(c, "conflict")
    ELSE IF contains_key(c.matches.args, v.name) /\ ~v.multiple THEN report_error(c, "repeat")
    ELSE [value_recorded(c, short_opt_occurrence(c.matches, v), v) EXCEPT !.ret = Some(v.name)]

(* lines 1365-1414: after parse_single_short_flag returned r *)
short_flag_or_opt(r, arg_c) ==
    IF r.out # Running THEN r
    ELSE IF r.found THEN [r EXCEPT !.ret = None]
    ELSE IF opts_with_short(r.self, arg_c) # {}
    THEN short_opt_matched(hit(r, r.self.opts[first_key(opts_with_short(r.self, arg_c))]),
                           r.self.opts[first_key(opts_with_short(r.self, arg_c))])
    ELSE report_error(r, "unknown")

(* lines 1359-1365: a single character *)
parse_short_single(c, arg_c) ==
    IF c.out # Running THEN c
    ELSE short_flag_or_opt(parse_single_short_flag(c, arg_c), arg_c)

(* parse_short_arg that takes a cluster as its first character *)
parse_short_first_only(c, trimmed) ==
    parse_short_single(check_for_help_and_version(c, trimmed[1]), trimmed[1])

(* lines 1347-1357: by the length of the trimmed token *)
parse_short_trimmed(c, trimmed) ==
    IF Len(trimmed) > 1 THEN parse_short_cluster(c, trimmed)
    ELSE parse_short_single(check_for_help_and_version(c, trimmed[1]), trimmed[1])

(* App::parse_short_arg *)
parse_short_arg(c, full_arg) == parse_short_trimmed(c, trim_left_matches(full_arg))

(* the long option's inline value is pushed and the occurrence not counted *)
long_opt_occurrence_uncounted(m, v, arg_val) ==
    IF contains_key(m.args, v.name)
    THEN IF is_some(arg_val)
         THEN [m EXCEPT !.args[v.name].values =
                            IF is_some(@) THEN Some(Append(unwrap(@), unwrap(arg_val))) ELSE @]
         ELSE m
    ELSE [m EXCEPT !.args = insert(@, v.name,
            [occurrences |-> IF is_some(arg_val) THEN 1 ELSE 0,
             values |-> IF is_some(arg_val) THEN Some(<<unwrap(arg_val)>>) ELSE Some(<<>>)])]

(* lines 1225-1257: the entry of an option found by its long *)
long_opt_occurrence(m, v, arg_val) ==
    IF contains_key(m.args, v.name)
    THEN IF is_some(arg_val)
         THEN [m EXCEPT !.args[v.name].occurrences = @ + 1,
                        !.args[v.name].values =
                            IF is_some(@) THEN Some(Append(unwrap(@), unwrap(arg_val))) ELSE @]
         ELSE m
    ELSE [m EXCEPT !.args = insert(@, v.name,
            [occurrences |-> IF is_some(arg_val) THEN 1 ELSE 0,
             values |-> IF is_some(arg_val) THEN Some(<<unwrap(arg_val)>>) ELSE Some(<<>>)])]

(* App::parse_long_arg, lines 1218-1285: the option with this long *)
long_opt_matched(c, v, arg_val) ==
    IF v.name \in c.self.blacklist THEN report_error(c, "conflict")
    ELSE IF contains_key(c.matches.args, v.name) /\ ~v.multiple THEN report_error(c, "repeat")
    ELSE IF /\ contains_key(c.matches.args, v.name)
            /\ is_some(v.possible_vals) /\ is_some(arg_val)
            /\ unwrap(arg_val) \notin unwrap(v.possible_vals)
    THEN report_error(c, "invalid value")
    ELSE [value_recorded(c, long_opt_occurrence(c.matches, v, arg_val), v)
            EXCEPT !.ret = IF is_none(arg_val) THEN Some(v.name) ELSE None]

(* App::parse_long_arg, lines 1287-1338: the flag with this long *)
long_flag_matched(c, v) ==
    IF v.name \in c.self.blacklist THEN report_error(c, "conflict")
    ELSE IF contains_key(c.matches.args, v.name) /\ ~v.multiple THEN report_error(c, "repeat")
    ELSE [flag_recorded(c, flag_occurrence(c.matches, v), v) EXCEPT !.ret = None]

(* the (name, value) split of parse_long_arg, lines 1206-1216 *)
long_name(a) == IF contains_eq(a) THEN split(a)[1] ELSE a

long_value(a) == IF contains_eq(a) THEN Some(split(a)[2]) ELSE None

(* the lookups by the long name without the check of line 1212 *)
parse_long_lookup_unchecked(c, lname, arg_val) ==
    IF opts_with_long(c.self, lname) # {}
    THEN long_opt_matched(hit(c, c.self.opts[first_key(opts_with_long(c.self, lname))]),
                          c.self.opts[first_key(opts_with_long(c.self, lname))], arg_val)
    ELSE IF flags_with_long(c.self, lname) # {}
    THEN long_flag_matched(hit(c, c.self.flags[first_key(flags_with_long(c.self, lname))]),
                           c.self.flags[first_key(flags_with_long(c.self, lname))])
    ELSE report_error(c, "unknown")

(* lines 1212-1343: the lookups by the long name *)
parse_long_lookup(c, lname, arg_val) ==
    IF is_some(arg_val) /\ Len(unwrap(arg_val)) = 0 THEN report_error(c, "requires a value")
    ELSE IF opts_with_long(c.self, lname) # {}
    THEN long_opt_matched(hit(c, c.self.opts[first_key(opts_with_long(c.self, lname))]),
                          c.self.opts[first_key(opts_with_long(c.self, lname))], arg_val)
    ELSE IF flags_with_long(c.self, lname) # {}
    THEN long_flag_matched(hit(c, c.self.flags[first_key(flags_with_long(c.self, lname))]),
                           c.self.flags[first_key(flags_with_long(c.self, lname))])
    ELSE report_error(c, "unknown")

(* parse_long_arg without the help and version triggers *)
parse_long_untriggered(c, trimmed) ==
    parse_long_lookup(c, long_name(trimmed), long_value(trimmed))

(* lines 1198-1216 *)
parse_long_trimmed(c, trimmed) ==
    IF trimmed = T_help /\ c.self.needs_long_help THEN print_help(c)
    ELSE IF trimmed = T_version /\ c.self.needs_long_version THEN print_version(c)
    ELSE parse_long_lookup(c, long_name(trimmed), long_value(trimmed))

(* App::parse_long_arg *)
parse_long_arg(c, full_arg) == parse_long_trimmed(c, trim_left_matches(full_arg))

(* the value is pushed and the occurrences are left as they were *)
value_pushed_uncounted(m, opt, tok) ==
    IF contains_key(m.args, opt.name)
    THEN [m EXCEPT !.args[opt.name].values =
                       IF is_some(@) THEN Some(Append(unwrap(@), tok)) ELSE @]
    ELSE m

(* lines 1004-1012: the value is pushed on the entry of the option *)
value_pushed(m, opt, tok) ==
    IF contains_key(m.args, opt.name)
    THEN [m EXCEPT !.args[opt.name].values =
                       IF is_some(@) THEN Some(Append(unwrap(@), tok)) ELSE @,
                   !.args[opt.name].occurrences = IF opt.multiple THEN @ + 1 ELSE 1]
    ELSE m

(* lines 989-1014: the token is the value of the option opt *)
value_of(c, opt, tok) ==
    IF /\ is_some(opt.possible_vals) /\ unwrap(opt.possible_vals) # {}
       /\ tok \notin unwrap(opt.possible_vals)
    THEN report_error(c, "invalid value")
    ELSE [c EXCEPT !.matches = value_pushed(@, opt, tok), !.needs_val_of = None]

(* get_matches_from, lines 987-1021: the token is the value of needs_val_of *)
pending_value(c, tok) ==
    value_of(hit(c, c.self.opts[unwrap(c.needs_val_of)]),
             c.self.opts[unwrap(c.needs_val_of)], tok)

(* the entry of a positional that is always inserted anew *)
positional_occurrence_fresh(m, p, tok) ==
    [m EXCEPT !.args = insert(@, p.name, [occurrences |-> 1, values |-> Some(<<tok>>)])]

(* lines 1066-1087: the entry of a positional *)
positional_occurrence(m, p, tok) ==
    IF p.multiple /\ contains_key(m.args, p.name)
    THEN [m EXCEPT !.args[p.name].occurrences = @ + 1,
                   !.args[p.name].values =
                       IF is_some(@) THEN Some(Append(unwrap(@), tok)) ELSE @]
    ELSE [m EXCEPT !.args = insert(@, p.name, [occurrences |-> 1, values |-> Some(<<tok>>)])]

(* the positional takes the token and pos_counter stays *)
positional_matched_in_place(c, p, tok) ==
    IF p.name \in c.self.blacklist THEN report_error(c, "conflict")
    ELSE IF /\ is_some(p.possible_vals) /\ unwrap(p.possible_vals) # {}
            /\ tok \notin unwrap(p.possible_vals)
    THEN report_error(c, "invalid value")
    ELSE value_recorded(c, positional_occurrence(c.matches, p, tok), p)

(* lines 1050-1108: the positional p at pos_counter takes the token *)
positional_matched(c, p, tok) ==
    IF p.name \in c.self.blacklist THEN report_error(c, "conflict")
    ELSE IF /\ is_some(p.possible_vals) /\ unwrap(p.possible_vals) # {}
            /\ tok \notin unwrap(p.possible_vals)
    THEN report_error(c, "invalid value")
    ELSE [value_recorded(c, positional_occurrence(c.matches, p, tok), p)
            EXCEPT !.pos_counter = IF p.multiple THEN @ ELSE @ + 1]

(* a bare token that no positional takes is passed over *)
positional_or_dropped(c, tok) ==
    IF ~contains_key(c.self.positionals_idx, c.pos_counter) THEN c
    ELSE positional_matched(hit(c, c.self.positionals_idx[c.pos_counter]),
                            c.self.positionals_idx[c.pos_counter], tok)

(* get_matches_from, lines 1042-1112: the token is a positional value *)
positional(c, tok) ==
    IF DOMAIN c.self.positionals_idx = {} THEN report_error(c, "unknown")
    ELSE IF ~contains_key(c.self.positionals_idx, c.pos_counter) THEN report_error(c, "unknown")
    ELSE positional_matched(hit(c, c.self.positionals_idx[c.pos_counter]),
                            c.self.positionals_idx[c.pos_counter], tok)

(* get_matches_from, lines 1034-1040: the token is the name of a subcommand *)
subcommand_named(c, tok) ==
    IF tok = T_help THEN print_help(c) ELSE [c EXCEPT !.subcmd_name = Some(tok)]

(* the branch by the shape of the token first, the awaited value last *)
classify_by_shape(c, tok) ==
    IF starts_with(tok, <<"-", "-">>) /\ ~c.pos_only
    THEN IF Len(tok) = 2 THEN "sentinel" ELSE "long"
    ELSE IF starts_with(tok, <<"-">>) /\ Len(tok) # 1 /\ ~c.pos_only THEN "short"
    ELSE IF ~c.pos_only /\ is_some(c.needs_val_of)
            /\ contains_key(c.self.opts, unwrap(c.needs_val_of))
    THEN "value"
    ELSE IF contains_key(c.self.subcommands, tok) THEN "subcommand"
    ELSE "positional"

(* lines 987-1034: which branch of the loop takes the token *)
classify(c, tok) ==
    IF ~c.pos_only /\ is_some(c.needs_val_of) /\ contains_key(c.self.opts, unwrap(c.needs_val_of))
    THEN "value"
    ELSE IF starts_with(tok, <<"-", "-">>) /\ ~c.pos_only
    THEN IF Len(tok) = 2 THEN "sentinel" ELSE "long"
    ELSE IF starts_with(tok, <<"-">>) /\ Len(tok) # 1 /\ ~c.pos_only THEN "short"
    ELSE IF contains_key(c.self.subcommands, tok) THEN "subcommand"
    ELSE "positional"

(* needs_val_of = self.parse_long_arg(..) / self.parse_short_arg(..) *)
returned_to_needs_val_of(r) == [r EXCEPT !.needs_val_of = r.ret]

(* the branch of the loop that `class` names *)
loop_branch(c, tok) ==
    CASE c.class = "value"      -> pending_value(c, tok)
      [] c.class = "sentinel"   -> [c EXCEPT !.pos_only = TRUE]
      [] c.class = "long"       -> returned_to_needs_val_of(parse_long_arg(c, tok))
      [] c.class = "short"      -> returned_to_needs_val_of(parse_short_arg(c, tok))
      [] c.class = "subcommand" -> subcommand_named(c, tok)
      [] c.class = "positional" -> positional(c, tok)

(* get_matches_from, lines 984-1113: one turn of `while let Some(arg) = it.next()` *)
loop_body(c, tok) ==
    loop_branch([c EXCEPT !.hits = <<>>, !.class = classify(c, tok), !.found = FALSE,
                          !.ret = None], tok)

(* after the loop, with no look at needs_val_of *)
after_loop_unawaited(c) ==
    IF validate_blacklist(c.self, c.matches) THEN report_error(c, "conflict")
    ELSE IF c.self.required # {} /\ validate_required(c.self, c.matches)
         THEN report_error(c, "required")
    ELSE [c EXCEPT !.matches.usage = Some(create_usage(c.self))]

(* get_matches_from, lines 1115-1136: after the loop *)
after_loop(c) ==
    IF is_some(c.needs_val_of) THEN report_error(c, "requires a value")
    ELSE IF validate_blacklist(c.self, c.matches) THEN report_error(c, "conflict")
    ELSE IF c.self.required # {} /\ validate_required(c.self, c.matches)
         THEN report_error(c, "required")
    ELSE [c EXCEPT !.matches.usage = Some(create_usage(c.self))]

----------------------------------------------------------------------------
(* The schemas and the token pools the engine is run on.  Every schema is *)
(* built by the builder calls above.                                      *)

MaxArgs == 3

dash1(t) == <<"-">> \o t

dash2(t) == <<"-", "-">> \o t

eq(l, v) == l \o <<"=">> \o v

N_a == <<"a">>

N_b == <<"b">>

N_c == <<"c">>

N_d == <<"d">>

N_g == <<"g">>

N_k == <<"k">>

N_m == <<"m">>

N_o == <<"o">>

N_p == <<"p">>

N_q == <<"q">>

N_s == <<"s">>

V_x == <<"x">>

V_y == <<"y">>

V_xy == <<"x", "=", "y">>

Prog == <<"p", "r", "o", "g">>

Categories == {"flag", "opt", "pos"}

(* a declaration of the category: a flag -n / --nn, an option -n / --nn <v>, *)
(* or a positional                                                            *)
mk(cat, n) ==
    CASE cat = "flag" -> long(short(with_name(n), n), dash2(n \o n))
      [] cat = "opt"  -> takes_value(long(short(with_name(n), dash1(n)), n \o n), TRUE)
      [] cat = "pos"  -> with_name(n)

(* the tokens that supply such a declaration *)
toks_of(cat, n) ==
    CASE cat = "flag" -> {dash1(n), dash2(n \o n)}
      [] cat = "opt"  -> {dash1(n), dash2(n \o n), eq(dash2(n \o n), V_x)}
      [] cat = "pos"  -> {V_x}

(* with .required(true), if so *)
mk_required(a, req) == IF req THEN required(a, TRUE) ELSE a

(* a with an edge to b: a.conflicts_with(b) or a.requires(b) *)
mk_edge(a, rel, n) ==
    CASE rel = "conflicts" -> conflicts_with(a, n)
      [] rel = "requires"  -> requires(a, n)
      [] OTHER             -> a

(* the third declaration: a required option c, that may conflict with a or b *)
mk_third(third) ==
    CASE third = "req_x_a" -> conflicts_with(required(mk("opt", N_c), TRUE), N_a)
      [] third = "req_x_b" -> conflicts_with(required(mk("opt", N_c), TRUE), N_b)
      [] OTHER             -> required(mk("opt", N_c), TRUE)

with_third(app, third) == IF third = "none" THEN app ELSE arg(app, mk_third(third))

(* a and b with an edge from a to b, a required or not, registered in     *)
(* either order, and optionally the third declaration                      *)
RelApp(p) ==
    with_third(
      IF p.bfirst
      THEN arg(arg(App_new(Prog), mk(p.cb, N_b)),
               mk_required(mk_edge(mk(p.ca, N_a), p.rel, N_b), p.reqA))
      ELSE arg(arg(App_new(Prog), mk_required(mk_edge(mk(p.ca, N_a), p.rel, N_b), p.reqA)),
               mk(p.cb, N_b)),
      p.third)

RelParams ==
    { q \in [ca : Categories, cb : Categories, rel : {"conflicts", "requires"},
             reqA : BOOLEAN, bfirst : BOOLEAN,
             third : {"none", "req", "req_x_a", "req_x_b"}] :
        /\ q.reqA => q.ca # "flag"
        /\ q.bfirst => (q.ca = "pos" /\ q.cb = "pos")
        /\ q.third # "none" => q.ca # q.cb }

RelScenarios ==
    { [app |-> RelApp(p),
       toks |-> toks_of(p.ca, N_a) \cup toks_of(p.cb, N_b) \cup {V_x}
                  \cup (IF p.third = "none" THEN {} ELSE {dash1(N_c)}),
       argv0 |-> Some(Prog)] : p \in RelParams }

(* a group of the members args, as ArgGroup's builder calls make it; it   *)
(* may require or conflict with the flag d, which is no member             *)
mk_group(n, args, greq, gextra) ==
    ArgGroup_required(
      CASE gextra = "requires_d"  -> ArgGroup_requires(ArgGroup_add_all(ArgGroup_with_name(n), args), N_d)
        [] gextra = "conflicts_d" -> ArgGroup_conflicts_with(ArgGroup_add_all(ArgGroup_with_name(n), args), N_d)
        [] OTHER                  -> ArgGroup_add_all(ArgGroup_with_name(n), args),
      greq)

(* a required positional q that conflicts with d, if so *)
with_extra(app, extra) ==
    IF extra = "pos_req_x_d"
    THEN arg(app, conflicts_with(required(with_name(N_q), TRUE), N_d))
    ELSE app

(* the members-to-be: flags a and c and an option b, and the flag d *)
GrpArgs(ga, gb, gc) == arg(arg(arg(arg(App_new(Prog), ga), gb), gc), mk("flag", N_d))

(* the group g of a, b and c, declared by App::arg_group, by Arg::group,  *)
(* or by both with App::arg_group first                                    *)
GrpApp(p) ==
    with_extra(
      CASE p.how = "arg_group" ->
             arg_group(GrpArgs(mk("flag", N_a), mk("opt", N_b), mk("flag", N_c)),
                       mk_group(N_g, {N_a, N_b, N_c}, p.greq, p.gextra))
        [] p.how = "Arg::group" ->
             arg_group(GrpArgs(group(mk("flag", N_a), N_g), group(mk("opt", N_b), N_g),
                               group(mk("flag", N_c), N_g)),
                       mk_group(N_g, {}, p.greq, p.gextra))
        [] p.how = "first" ->
             arg(arg(arg(arg(arg_group(App_new(Prog),
                                       mk_group(N_g, {N_a, N_c}, p.greq, p.gextra)),
                             mk("flag", N_a)),
                         group(mk("opt", N_b), N_g)),
                     mk("flag", N_c)),
                 mk("flag", N_d)),
      p.extra)

GrpParams ==
    [how : {"arg_group", "Arg::group", "first"}, greq : BOOLEAN,
     gextra : {"none", "requires_d", "conflicts_d"}, extra : {"none", "pos_req_x_d"}]

(* two groups that share the option b: g of a and b, k of b and c *)
TwoGroupsApp(greq) ==
    arg_group(
      arg_group(GrpArgs(mk("flag", N_a), mk("opt", N_b), mk("flag", N_c)),
                mk_group(N_g, {N_a, N_b}, greq, "none")),
      mk_group(N_k, {N_b, N_c}, TRUE, "none"))

(* a group g of a and b that requires the group k of a and c *)
ChainedGroupsApp ==
    arg_group(
      arg_group(GrpArgs(mk("flag", N_a), mk("opt", N_b), mk("flag", N_c)),
                ArgGroup_requires(ArgGroup_add_all(ArgGroup_with_name(N_g), {N_a, N_b}), N_k)),
      mk_group(N_k, {N_a, N_c}, FALSE, "none"))

GrpToks ==
    {dash1(N_a), dash1(N_b), dash1(N_c), dash1(N_d), eq(dash2(N_b \o N_b), V_x), V_x}

GrpScenarios ==
    { [app |-> GrpApp(p), toks |-> GrpToks, argv0 |-> Some(Prog)] : p \in GrpParams }
    \cup { [app |-> TwoGroupsApp(greq), toks |-> GrpToks, argv0 |-> Some(Prog)] :
             greq \in BOOLEAN }
    \cup { [app |-> ChainedGroupsApp, toks |-> GrpToks, argv0 |-> Some(Prog)] }

(* possible_values, if any *)
mk_possible(a, vals) == IF is_some(vals) THEN possible_values(a, unwrap(vals)) ELSE a

(* an option m (-m / --mm) and, if so, a positional q after it *)
PVApp(p) ==
    IF p.pos
    THEN arg(arg(App_new(Prog), mk_possible(multiple(mk("opt", N_m), p.multi), p.vals)),
             mk_possible(with_name(N_q), p.vals))
    ELSE arg(App_new(Prog), mk_possible(multiple(mk("opt", N_m), p.multi), p.vals))

PVParams == [multi : BOOLEAN, vals : {None, Some(<<V_x>>), Some(<<>>)}, pos : BOOLEAN]

PVToks ==
    {dash1(N_m), dash2(N_m \o N_m), eq(dash2(N_m \o N_m), V_x), eq(dash2(N_m \o N_m), V_y),
     eq(dash2(N_m \o N_m), V_xy), eq(dash2(N_m \o N_m), <<>>), V_x, V_y, V_xy}

PVScenarios ==
    { [app |-> PVApp(p), toks |-> PVToks, argv0 |-> Some(<<"/", "b">> \o Prog)] :
        p \in PVParams }

(* the subcommand s: a required positional q and a flag b *)
SubApp == arg(arg(App_new(N_s), required(with_name(N_q), TRUE)), mk("flag", N_b))

(* a flag a, the subcommand s, and what the user declares next to the    *)
(* automatic help: nothing, a flag with the long "help", a flag with the  *)
(* short h, a subcommand named "help", or a required option c              *)
HelpApp(userhelp) ==
    CASE userhelp = "long" ->
           subcommand(arg(arg(App_new(Prog), mk("flag", N_a)),
                          long(with_name(N_d), T_help)), SubApp)
      [] userhelp = "short" ->
           subcommand(arg(arg(App_new(Prog), mk("flag", N_a)),
                          short(with_name(N_d), <<"h">>)), SubApp)
      [] userhelp = "sub" ->
           subcommand(subcommand(arg(App_new(Prog), mk("flag", N_a)), App_new(T_help)), SubApp)
      [] userhelp = "required" ->
           subcommand(arg(arg(App_new(Prog), mk("flag", N_a)),
                          required(mk("opt", N_c), TRUE)), SubApp)
      [] OTHER ->
           subcommand(arg(App_new(Prog), mk("flag", N_a)), SubApp)

HelpToks ==
    {dash2(T_help), dash1(<<"h">>), dash2(T_version), dash1(<<"v">>), N_s, T_help,
     V_x, <<"-", "-">>, dash1(N_a), dash1(N_b)}

HelpScenarios ==
    { [app |-> HelpApp(u), toks |-> HelpToks, argv0 |-> az] :
        u \in {"none", "long", "short", "sub", "required"}, az \in {Some(Prog), None} }

(* flags a (conflicts with c), b (multiple) and c (requires b), an option *)
(* o, a positional q and the subcommand s                                  *)
ClusterApp ==
    subcommand(
      arg(arg(arg(arg(arg(App_new(Prog), conflicts_with(mk("flag", N_a), N_c)),
                      multiple(mk("flag", N_b), TRUE)),
                  requires(mk("flag", N_c), N_b)),
              mk("opt", N_o)),
          with_name(N_q)),
      SubApp)

ClusterToks ==
    {dash1(N_a), dash1(N_b), dash1(N_c), dash1(N_o), dash1(N_a \o N_b),
     dash1(N_b \o N_b \o N_b), dash1(N_a \o N_o), dash1(N_c \o N_a), V_x, <<"-", "-">>, N_s,
     dash2(N_a \o N_a)}

(* and the flags a and c with the option b in the required group g *)
ClusterScenarios ==
    { [app |-> ClusterApp, toks |-> ClusterToks, argv0 |-> Some(Prog)],
      [app |-> GrpApp([how |-> "arg_group", greq |-> TRUE, gextra |-> "requires_d",
                       extra |-> "none"]),
       toks |-> GrpToks \cup {dash1(N_a \o N_d), dash1(N_a \o N_c)}, argv0 |-> Some(Prog)] }

Scenarios ==
    RelScenarios \cup GrpScenarios \cup PVScenarios \cup HelpScenarios \cup ClusterScenarios

RECURSIVE all_groups(_)
(* the group names of a command and of its subcommands *)
all_groups(app) ==
    DOMAIN app.groups \cup UNION {all_groups(app.subcommands[n]) : n \in DOMAIN app.subcommands}

Perms(S) == {f \in [1..Cardinality(S) -> S] : \A i, j \in DOMAIN f : f[i] = f[j] => i = j}

----------------------------------------------------------------------------
(* The state machine *)

(* no usage string is being assembled *)
NoUsage == [stage |-> "idle"]

NoToken == [tok |-> <<>>, class |-> "none", hits |-> <<>>, stage |-> "none"]

InitOf(S) ==
    \E scn \in S :
        /\ self = scn.app
        /\ argv0 = scn.argv0
        /\ argv_pool = scn.toks
        /\ group_order \in Perms(all_groups(scn.app))
        /\ matches = ArgMatches_new
        /\ parents = <<>>
        /\ pos_only = FALSE
        /\ pos_counter = 1
        /\ needs_val_of = None
        /\ consumed = <<>>
        /\ last = NoToken
        /\ pc = "built"
        /\ outcome = Running
        /\ result = None
        /\ usage = NoUsage

Init == InitOf(Scenarios)

InitCluster == InitOf(ClusterScenarios)

(* the running get_matches_from as a context *)
Cur ==
    [self |-> self, matches |-> matches, pos_only |-> pos_only, pos_counter |-> pos_counter,
     needs_val_of |-> needs_val_of, subcmd_name |-> None, out |-> Running,
     ret |-> None, found |-> FALSE, hits |-> <<>>, class |-> "none"]

(* the process has exited inside get_matches_from *)
Exited(c, stage, tok) ==
    /\ pc' = "exit"
    /\ outcome' = c.out
    /\ self' = c.self
    /\ matches' = c.matches
    /\ last' = [tok |-> tok, class |-> c.class, hits |-> c.hits, stage |-> stage]
    /\ UNCHANGED <<parents, pos_only, pos_counter, needs_val_of, result>>

(* lines 919-922: verify_positionals on the command and on each of its subcommands *)
verified(s) ==
    IF IsPanic(verify_positionals(s)) THEN verify_positionals(s)
    ELSE IF \E n \in DOMAIN s.subcommands : IsPanic(verify_positionals(s.subcommands[n]))
    THEN Panic("subcommand")
    ELSE [verify_positionals(s) EXCEPT
            !.subcommands = [n \in DOMAIN @ |-> verify_positionals(@[n])]]

(* lines 928-935: bin_name from argv[0] *)
with_bin_name(s, name) ==
    IF is_some(name) /\ is_some(file_name(unwrap(name)))
    THEN [s EXCEPT !.bin_name = file_name(unwrap(name))]
    ELSE s

(* App::get_matches, up to the first turn of the loop of get_matches_from *)
GetMatches ==
    /\ pc = "built"
    /\ IF IsPanic(verified(self))
       THEN /\ pc' = "exit"
            /\ outcome' = [msg |-> "panic", code |-> 101]
            /\ UNCHANGED <<self, matches>>
       ELSE /\ pc' = "loop"
            /\ self' = create_help_and_version(with_bin_name(verified(self), argv0))
            /\ matches' = ArgMatches_new
            /\ UNCHANGED outcome
    /\ UNCHANGED <<parents, pos_only, pos_counter, needs_val_of, consumed, last, result,
                   argv0, argv_pool, group_order, usage>>

(* the subcommand's name alone *)
sub_bin_name_bare(s, sc) == sc.name

(* line 1142: the parent's bin_name, a space, the subcommand's name *)
sub_bin_name(s, sc) ==
    (IF is_some(s.bin_name) THEN unwrap(s.bin_name) \o <<" ">> ELSE <<>>) \o sc.name

(* the subcommand sc goes on filling the matches of its parent *)
DispatchTo_shared(a, sc, tok) ==
    /\ parents' = Append(parents, [app |-> a.self, matches |-> a.matches, sub |-> sc.name])
    /\ self' = create_help_and_version([sc EXCEPT !.bin_name = Some(sub_bin_name(a.self, sc))])
    /\ matches' = a.matches
    /\ pos_only' = FALSE
    /\ pos_counter' = 1
    /\ needs_val_of' = None
    /\ last' = [tok |-> tok, class |-> a.class, hits |-> a.hits, stage |-> "loop"]
    /\ UNCHANGED <<pc, outcome, result>>

(* get_matches_from, lines 1138-1148: the rest of the stream goes to the subcommand sc *)
DispatchTo(a, sc, tok) ==
    /\ parents' = Append(parents, [app |-> a.self, matches |-> a.matches, sub |-> sc.name])
    /\ self' = create_help_and_version([sc EXCEPT !.bin_name = Some(sub_bin_name(a.self, sc))])
    /\ matches' = ArgMatches_new
    /\ pos_only' = FALSE
    /\ pos_counter' = 1
    /\ needs_val_of' = None
    /\ last' = [tok |-> tok, class |-> a.class, hits |-> a.hits, stage |-> "loop"]
    /\ UNCHANGED <<pc, outcome, result>>

(* the loop broke on a subcommand name: lines 1115-1148 with the context a after them *)
Dispatch(a, tok) ==
    IF a.out # Running THEN Exited(a, "after", tok)
    ELSE DispatchTo(a, a.self.subcommands[unwrap(a.subcmd_name)], tok)

(* the loop goes on to the next token *)
Continue(r, tok) ==
    /\ self' = r.self
    /\ matches' = r.matches
    /\ pos_only' = r.pos_only
    /\ pos_counter' = r.pos_counter
    /\ needs_val_of' = r.needs_val_of
    /\ last' = [tok |-> tok, class |-> r.class, hits |-> r.hits, stage |-> "loop"]
    /\ UNCHANGED <<parents, pc, outcome, result>>

(* what the turn that left the context r leads to *)
TurnOn(r, tok) ==
    IF r.out # Running THEN Exited(r, "loop", tok)
    ELSE IF is_some(r.subcmd_name) THEN Dispatch(after_loop(r), tok)
    ELSE Continue(r, tok)

(* one turn of the loop on the next token of the stream, which the loop takes as cls *)
Turn(tok, cls) ==
    /\ pc = "loop"
    /\ Len(consumed) < MaxArgs
    /\ classify(Cur, tok) = cls
    /\ TurnOn(loop_body(Cur, tok), tok)
    /\ consumed' = Append(consumed, tok)
    /\ UNCHANGED <<argv0, argv_pool, group_order, usage>>

OptionValue == \E tok \in argv_pool : Turn(tok, "value")

Sentinel == \E tok \in argv_pool : Turn(tok, "sentinel")

LongArg == \E tok \in argv_pool : Turn(tok, "long")

ShortArg == \E tok \in argv_pool : Turn(tok, "short")

SubcommandName == \E tok \in argv_pool : Turn(tok, "subcommand")

PositionalValue == \E tok \in argv_pool : Turn(tok, "positional")

RECURSIVE link(_, _)
(* line 1144: matches.subcommand = Some(SubCommand{name, matches: new_matches}), outwards *)
link(ps, m) ==
    IF ps = <<>> THEN m
    ELSE link(SubSeq(ps, 1, Len(ps) - 1),
              [ps[Len(ps)].matches EXCEPT
                 !.subcommand = Some([name |-> ps[Len(ps)].sub, matches |-> m])])

(* get_matches returns the context a of the innermost command *)
Returned(a) ==
    IF a.out # Running THEN Exited(a, "after", last.tok)
    ELSE /\ pc' = "returned"
         /\ matches' = a.matches
         /\ result' = Some(link(parents, a.matches))
         /\ last' = [last EXCEPT !.stage = "after"]
         /\ UNCHANGED <<self, parents, pos_only, pos_counter, needs_val_of, outcome>>

(* it.next() is None: the post-loop validation, and get_matches returns *)
EndOfArgs ==
    /\ pc = "loop"
    /\ Returned(after_loop(Cur))
    /\ UNCHANGED <<consumed, argv0, argv_pool, group_order, usage>>

Next ==
    \/ GetMatches
    \/ OptionValue
    \/ Sentinel
    \/ LongArg
    \/ ShortArg
    \/ SubcommandName
    \/ PositionalValue
    \/ EndOfArgs

Spec == Init /\ [][Next]_vars

(* the engine on the schema of the short flags *)
SpecCluster == InitCluster /\ [][Next]_vars


----------------------------------------------------------------------------
(* Commands with positionals and nested subcommands *)

(* the positionals of a command, p then q: p and a `multiple` q; only a   *)
(* `multiple` q; the indices 1 and 3; a `multiple` p before q; an         *)
(* optional p before a required q                                          *)
with_positionals(app, kind) ==
    CASE kind = "greedy"   -> arg(app, multiple(with_name(N_q), TRUE))
      [] kind = "gap"      -> arg(arg(app, index(with_name(N_p), 1)), index(with_name(N_q), 3))
      [] kind = "multiple" -> arg(arg(app, multiple(with_name(N_p), TRUE)), with_name(N_q))
      [] kind = "prefix"   -> arg(arg(app, with_name(N_p)), required(with_name(N_q), TRUE))
      [] OTHER             -> arg(arg(app, with_name(N_p)), multiple(with_name(N_q), TRUE))

(* prog (flag a, option o) with the subcommand s (flag b), which has the  *)
(* subcommand k; kinds[d + 1] is the positional schema at depth d          *)
NestedApp(kinds) ==
    subcommand(
      with_positionals(arg(arg(App_new(Prog), mk("flag", N_a)), mk("opt", N_o)), kinds[1]),
      subcommand(with_positionals(arg(App_new(N_s), mk("flag", N_b)), kinds[2]),
                 with_positionals(App_new(N_k), kinds[3])))

NestedKinds ==
    { ks \in [1..3 -> {"none", "greedy", "gap", "multiple", "prefix"}] :
        Cardinality({d \in 1..3 : ks[d] # "none"}) <= 1 }

NestedToks ==
    {V_x, V_y, <<"-", "-">>, dash1(N_a), dash1(N_o), N_s, N_k, T_help, dash2(T_help)}

NestedScenarios ==
    { [app |-> NestedApp(ks), toks |-> NestedToks, argv0 |-> Some(<<"/", "b", "/">> \o Prog)] :
        ks \in NestedKinds }
    \cup { [app |-> NestedApp([d \in 1..3 |-> "none"]), toks |-> NestedToks, argv0 |-> None] }

InitNested == InitOf(NestedScenarios)

(* the engine on the nested commands *)
SpecNested == InitNested /\ [][Next]_vars

----------------------------------------------------------------------------
(* The builder chain: App::new(..).arg(..).arg(..) and then get_matches   *)

MaxDecls == 3

(* positionals p and q with an index or none, `multiple` or not; only q   *)
(* is ever declared required                                               *)
PositionalPool ==
    { a \in { [with_name(n) EXCEPT !.index = i, !.multiple = m, !.required = r] :
                n \in {N_p, N_q}, i \in {None, Some(0), Some(2), Some(3)},
                m \in BOOLEAN, r \in BOOLEAN } :
        a.name = N_p => ~a.required }

(* a flag a (-a, --aa) and declarations that repeat its name, its short   *)
(* or its long in the same or another category                             *)
NamedPool ==
    { mk("flag", N_a),
      short(with_name(N_b), N_a),
      long(with_name(N_c), N_a \o N_a),
      takes_value(short(with_name(N_o), N_a), TRUE),
      takes_value(long(with_name(N_k), N_a \o N_a), TRUE),
      takes_value(long(with_name(N_a), N_o \o N_o), TRUE),
      with_name(N_a),
      mk("opt", N_o) }

(* declarations that contradict themselves: an index with a short, with  *)
(* a long or with takes_value, takes_value with nothing else, a required  *)
(* flag and a flag with possible values                                    *)
ContradictoryPool ==
    { index(short(with_name(N_b), N_b), 1),
      index(long(with_name(N_c), N_c \o N_c), 1),
      takes_value(index(with_name(N_d), 1), TRUE),
      takes_value(with_name(N_m), TRUE),
      required(mk("flag", N_d), TRUE),
      possible_values(mk("flag", N_g), <<V_x>>) }

ArgPool == PositionalPool \cup NamedPool \cup ContradictoryPool

InitBuild == InitOf({ [app |-> App_new(Prog), toks |-> {V_x}, argv0 |-> Some(Prog)] })

(* App::arg on the App being built: it panics, and `last` names the      *)
(* declaration it panicked on, or it returns the App                      *)
ArgCall ==
    /\ pc = "built"
    /\ Cardinality(self.arg_list) < MaxDecls
    /\ \E a \in ArgPool :
         IF IsPanic(arg(self, a))
         THEN /\ pc' = "exit"
              /\ outcome' = [msg |-> "panic", code |-> 101]
              /\ last' = [last EXCEPT !.stage = "arg", !.tok = a.name]
              /\ UNCHANGED self
         ELSE /\ self' = arg(self, a)
              /\ UNCHANGED <<pc, outcome, last>>
    /\ UNCHANGED <<matches, parents, pos_only, pos_counter, needs_val_of, consumed,
                   result, argv0, argv_pool, group_order, usage>>

(* the builder calls, get_matches, and the engine on a stream of          *)
(* positional values                                                       *)
NextBuild ==
    \/ ArgCall
    \/ GetMatches
    \/ PositionalValue
    \/ EndOfArgs

SpecBuild == InitBuild /\ [][NextBuild]_vars
----------------------------------------------------------------------------
(* The engine on schemas that claim, or leave alone, the shorts and longs *)
(* of the automatic help and version flags.                               *)

N_z == <<"z">>

C_h == <<"h">>

C_v == <<"v">>

(* what the user declares next to the automatic flags *)
AutoClaims == {"none", "flag_h", "opt_h", "long_help", "flag_v", "long_version"}

claimed(how) ==
    CASE how = "flag_h"       -> short(with_name(N_d), C_h)
      [] how = "opt_h"        -> takes_value(short(with_name(N_d), C_h), TRUE)
      [] how = "long_help"    -> long(with_name(N_d), T_help)
      [] how = "flag_v"       -> short(with_name(N_d), C_v)
      [] how = "long_version" -> long(with_name(N_d), T_version)

(* a multiple flag -a / --aa under the name uname, a positional q, the   *)
(* subcommand s, and the claim                                             *)
AutoBase(uname) ==
    subcommand(arg(arg(App_new(Prog),
                       multiple(long(short(with_name(uname), N_a), N_a \o N_a), TRUE)),
                   with_name(N_q)),
               SubApp)

AutoApp(how, uname) ==
    IF how = "none" THEN AutoBase(uname) ELSE arg(AutoBase(uname), claimed(how))

AutoToks ==
    {dash1(C_h), dash2(T_help), dash1(C_v), dash2(T_version), dash1(N_a),
     dash1(N_a \o C_h), dash1(C_h \o N_a), V_x, <<"-", "-">>, N_s,
     dash2(N_z \o N_z), eq(dash2(N_z \o N_z), <<>>), dash1(N_z), dash1(N_a \o N_z)}

AutoScenarios ==
    { [app |-> AutoApp(how, uname), toks |-> AutoToks, argv0 |-> Some(Prog)] :
        how \in AutoClaims, uname \in {N_a, N_k, N_z} }

InitAuto == InitOf(AutoScenarios)

SpecAuto == InitAuto /\ [][Next]_vars

----------------------------------------------------------------------------
(* Arg::from_usage (src/src/args/arg.rs) on the tokens of one usage        *)
(* declaration, and App::arg_from_usage, which registers what it returns.  *)

MaxUsageTokens == 3

U_conf == <<"c", "o", "n", "f">>

U_config == <<"c", "o", "n", "f", "i", "g">>

(* UsageToken *)
Name(n, req) == [kind |-> "Name", text |-> n, req |-> req]

Short(s) == [kind |-> "Short", text |-> s]

Long(l) == [kind |-> "Long", text |-> l]

Help(h) == [kind |-> "Help", text |-> h]

Multiple == [kind |-> "Multiple"]

UsageTokens ==
    {Name(n, req) : n \in {U_conf, U_config, N_c}, req \in {None, Some(TRUE), Some(FALSE)}}
      \cup {Short("c"), Long(U_config), Help(V_x), Multiple}

UsageLists == UNION {[1..n -> UsageTokens] : n \in 0..MaxUsageTokens}

(* the locals of from_usage before the first token, and the parser's tokens *)
from_usage(ts) ==
    [stage |-> "parsing", tokens |-> ts, parser |-> ts,
     name |-> None, short |-> None, long |-> None, help |-> None,
     required |-> FALSE, takes_value |-> FALSE, multiple |-> FALSE]

(* if let Some(r) = req { required = r; } *)
required_by(u, req) == IF is_some(req) THEN [u EXCEPT !.required = unwrap(req)] ELSE u

(* lines 222-231: a Name while the name is set and a long was seen *)
name_after_long(u, n, req) ==
    IF unwrap(u.long) = unwrap(u.name)
    THEN [required_by(u, req) EXCEPT !.name = Some(n)]
    ELSE IF n # unwrap(u.long) THEN [u EXCEPT !.name = Some(n)]
    ELSE u

(* lines 216-232 *)
name_assigned(u, n, req) ==
    IF is_none(u.name) THEN required_by([u EXCEPT !.name = Some(n)], req)
    ELSE IF is_some(u.long) THEN name_after_long(u, n, req)
    ELSE u

(* a Name that never marks the declaration as taking a value *)
value_marked_never(u) == u

(* lines 233-235 *)
value_marked(u) ==
    IF is_some(u.short) \/ is_some(u.long) THEN [u EXCEPT !.takes_value = TRUE] ELSE u

(* UsageToken::Name(n, req) *)
usage_name(u, n, req) == value_marked(name_assigned(u, n, req))

(* UsageToken::Short(s) *)
usage_short(u, s) == [u EXCEPT !.short = Some(s)]

(* UsageToken::Long(l) *)
usage_long(u, l) ==
    [u EXCEPT !.long = Some(l), !.name = IF is_none(u.name) THEN Some(l) ELSE u.name]

(* UsageToken::Help(h) *)
usage_help(u, h) == [u EXCEPT !.help = Some(h)]

(* UsageToken::Multiple *)
usage_multiple(u) == [u EXCEPT !.multiple = TRUE]

(* lines 252-265: the Arg that from_usage returns *)
usage_arg(u) ==
    [name |-> unwrap(u.name), short |-> u.short, long |-> u.long, required |-> u.required,
     takes_value |-> u.takes_value, multiple |-> u.multiple, index |-> None,
     possible_vals |-> None, blacklist |-> None, requires |-> None, group |-> None]

InitUsage ==
    /\ \E ts \in UsageLists : usage = from_usage(ts)
    /\ self = App_new(Prog)
    /\ argv0 = Some(Prog)
    /\ argv_pool = {}
    /\ group_order = <<>>
    /\ matches = ArgMatches_new
    /\ parents = <<>>
    /\ pos_only = FALSE
    /\ pos_counter = 1
    /\ needs_val_of = None
    /\ consumed = <<>>
    /\ last = NoToken
    /\ pc = "built"
    /\ outcome = Running
    /\ result = None

(* the for_match! loop yields a token of this kind, and from_usage goes   *)
(* on as u                                                                 *)
Yields(kind, u) ==
    /\ usage.stage = "parsing"
    /\ usage.parser # <<>>
    /\ Head(usage.parser).kind = kind
    /\ usage' = [u EXCEPT !.parser = Tail(usage.parser)]
    /\ UNCHANGED <<self, matches, parents, pos_only, pos_counter, needs_val_of, consumed,
                   last, pc, outcome, result, argv0, argv_pool, group_order>>

UsageName ==
    Yields("Name", usage_name(usage, Head(usage.parser).text, Head(usage.parser).req))

UsageShort == Yields("Short", usage_short(usage, Head(usage.parser).text))

UsageLong == Yields("Long", usage_long(usage, Head(usage.parser).text))

UsageHelp == Yields("Help", usage_help(usage, Head(usage.parser).text))

UsageMultiple == Yields("Multiple", usage_multiple(usage))

(* the builder call panicked *)
BuilderPanic(stage) ==
    /\ pc' = "exit"
    /\ outcome' = [msg |-> "panic", code |-> 101]
    /\ usage' = [usage EXCEPT !.stage = stage]
    /\ UNCHANGED self

(* App::arg_from_usage once the parser is exhausted: from_usage returns   *)
(* its Arg (name.unwrap()) and App::arg registers it                       *)
ArgFromUsage ==
    /\ pc = "built"
    /\ usage.stage = "parsing"
    /\ usage.parser = <<>>
    /\ IF is_none(usage.name) THEN BuilderPanic("unwrap")
       ELSE IF IsPanic(arg(self, usage_arg(usage))) THEN BuilderPanic("refused")
       ELSE /\ self' = arg(self, usage_arg(usage))
            /\ usage' = [usage EXCEPT !.stage = "registered"]
            /\ UNCHANGED <<pc, outcome>>
    /\ UNCHANGED <<matches, parents, pos_only, pos_counter, needs_val_of, consumed,
                   last, result, argv0, argv_pool, group_order>>

NextUsage ==
    \/ UsageName
    \/ UsageShort
    \/ UsageLong
    \/ UsageHelp
    \/ UsageMultiple
    \/ ArgFromUsage

SpecUsage == InitUsage /\ [][NextUsage]_vars

----------------------------------------------------------------------------
(* What the properties speak of *)

(* the names of the flags, options and positionals of a command *)
declared(s) ==
    DOMAIN s.flags \cup DOMAIN s.opts
      \cup {s.positionals_idx[i].name : i \in DOMAIN s.positionals_idx}

(* the declaration of that name: its FlagBuilder, OptBuilder or PosBuilder *)
decl(s, n) ==
    IF contains_key(s.flags, n) THEN s.flags[n]
    ELSE IF contains_key(s.opts, n) THEN s.opts[n]
    ELSE s.positionals_idx[CHOOSE i \in DOMAIN s.positionals_idx :
                              s.positionals_idx[i].name = n]

(* the name has an entry in the matches *)
supplied(m, n) == contains_key(m.args, n)

(* the commands whose post-loop validation has passed, with their matches *)
Validated ==
    (IF pc = "returned" THEN {[app |-> self, matches |-> matches]} ELSE {})
      \cup {[app |-> parents[i].app, matches |-> parents[i].matches] : i \in DOMAIN parents}

(* the declaration the last token was last looked up as *)
LastHit == last.hits[Len(last.hits)]

(* the process exited in the loop, on the lookup of a declaration *)
ExitAtLookup ==
    pc = "exit" /\ last.stage = "loop" /\ last.class # "value" /\ last.hits # <<>>

(* the process exited in the post-loop validation, every option having its value *)
ExitAfterLoop == pc = "exit" /\ last.stage = "after" /\ is_none(needs_val_of)

(* the pairs <<A, B>> of declared arguments where A's blacklist contains B *)
Conflicts(s) ==
    {ab \in declared(s) \X declared(s) :
        ab[1] # ab[2] /\ ab[2] \in members(decl(s, ab[1]).blacklist)}

BothSupplied(s, m) == \E ab \in Conflicts(s) : supplied(m, ab[1]) /\ supplied(m, ab[2])

----------------------------------------------------------------------------
(* C1. Blacklist symmetry: with B in the blacklist of A, no command       *)
(* passes its validation with both A and B supplied; when B is looked up  *)
(* with A supplied the process exits with the conflict error, and when    *)
(* the validation after the loop finds both supplied, with A after B, it  *)
(* exits with the conflict error.                                          *)
C1_BlacklistSymmetry ==
    /\ \A f \in Validated : ~BothSupplied(f.app, f.matches)
    /\ (ExitAtLookup
          /\ \E ab \in Conflicts(self) : ab[2] = LastHit /\ supplied(matches, ab[1]))
         => outcome = [msg |-> "conflict", code |-> 1]
    /\ (ExitAfterLoop /\ BothSupplied(self, matches))
         => outcome = [msg |-> "conflict", code |-> 1]

(* B then A: the conflict is found after the loop *)
C1_Witness_BThenA ==
    /\ ExitAfterLoop
    /\ BothSupplied(self, matches)
    /\ outcome.msg = "conflict"


----------------------------------------------------------------------------
(* the name of the required set is satisfied: it is supplied, or it is a  *)
(* group with a member supplied                                            *)
satisfied(s, m, n) ==
    \/ supplied(m, n)
    \/ contains_key(s.groups, n) /\ \E a \in s.groups[n].args : supplied(m, a)

(* the name's own declaration has a blacklist entry that is matched *)
demoted(s, m, n) == n \in declared(s) /\ blacklist_matched(s, m, decl(s, n).blacklist)

(* C2. Required check: a command passes its validation only when every   *)
(* name left in its required set is supplied (for a group: a member is)   *)
(* or is demoted by a matched entry of its own blacklist.                  *)
C2_RequiredCheck ==
    \A f \in Validated :
        \A n \in f.app.required :
            satisfied(f.app, f.matches, n) \/ demoted(f.app, f.matches, n)

(* the options and positionals that declare a non-empty possible_vals *)
restricted(s) ==
    {n \in declared(s) \ DOMAIN s.flags :
        is_some(decl(s, n).possible_vals) /\ unwrap(decl(s, n).possible_vals) # {}}

(* C3. Possible values: every value recorded for an option or positional *)
(* with a non-empty possible_vals is one of them, whichever form and      *)
(* occurrence recorded it.                                                 *)
C3_PossibleValues ==
    \A n \in restricted(self) \cap DOMAIN matches.args :
        \A i \in DOMAIN unwrap(matches.args[n].values) :
            unwrap(matches.args[n].values)[i] \in unwrap(decl(self, n).possible_vals)

(* two distinct members of one group *)
TwoMembers(s, S) ==
    \E g \in DOMAIN s.groups : \E x, y \in s.groups[g].args \cap S : x # y

(* the names a conflict error can be about: the supplied ones and the one *)
(* being looked up                                                         *)
Involved == DOMAIN matches.args \cup (IF ExitAtLookup THEN {LastHit} ELSE {})

(* a conflict that a declaration's blacklist or a group's conflicts asks for *)
ConflictDeclared ==
    \/ \E ab \in Conflicts(self) : ab[1] \in Involved /\ ab[2] \in Involved
    \/ \E g \in DOMAIN self.groups :
          /\ members(self.groups[g].conflicts) \cap Involved # {}
          /\ self.groups[g].required \/ self.groups[g].args \cap Involved # {}

(* C4. Group exclusivity: no command passes its validation with two       *)
(* distinct members of a group supplied; the lookup of a member when      *)
(* another member is supplied exits with the conflict error; and a        *)
(* conflict error with at most one member of every group involved is one  *)
(* that a blacklist or a group's conflicts declares.                       *)
C4_GroupExclusivity ==
    /\ \A f \in Validated : ~TwoMembers(f.app, DOMAIN f.matches.args)
    /\ (ExitAtLookup /\ TwoMembers(self, DOMAIN matches.args \cup {LastHit})
          /\ ~supplied(matches, LastHit))
         => outcome = [msg |-> "conflict", code |-> 1]
    /\ (pc = "exit" /\ outcome.msg = "conflict" /\ ~TwoMembers(self, Involved))
         => ConflictDeclared

(* the second member of a group is looked up *)
C4_Witness_SecondMember ==
    /\ ExitAtLookup
    /\ TwoMembers(self, DOMAIN matches.args \cup {LastHit})
    /\ ~supplied(matches, LastHit)
    /\ outcome.msg = "conflict"

(* C5. Required group: a command whose group is registered as required   *)
(* passes its validation only with a member of the group supplied.        *)
C5_RequiredGroup ==
    \A f \in Validated :
        \A g \in DOMAIN f.app.groups :
            f.app.groups[g].required
              => \E a \in f.app.groups[g].args : supplied(f.matches, a)

C7_Demotion ==
    (pc = "exit" /\ outcome.msg = "required")
      => \E n \in self.required : ~demoted(self, matches, n)

(* A is required, B of its blacklist is supplied and A is not: get_matches returns *)
C7_Witness_Demoted ==
    /\ pc = "returned"
    /\ \E ab \in Conflicts(self) :
          /\ ab[1] \in self.required
          /\ ~supplied(matches, ab[1])
          /\ supplied(matches, ab[2])

(* C8. Requires: a command passes its validation only with every name a  *)
(* supplied argument requires supplied too, and recorded in matched_reqs.  *)
C8_RequiresDependency ==
    \A f \in Validated :
        \A a \in declared(f.app) \cap DOMAIN f.matches.args :
            \A n \in members(decl(f.app, a).requires) :
                supplied(f.matches, n) /\ n \in f.app.matched_reqs

----------------------------------------------------------------------------
MaxCluster == 3

(* the loop is at a token that it classifies by its dashes *)
AtToken == pc = "loop" /\ ~pos_only /\ is_none(needs_val_of)

(* the next turn of the loop, if the process has not exited *)
then_token(r, tok) == IF r.out # Running THEN r ELSE loop_body(r, tok)

RECURSIVE separate_tokens(_, _)
(* the characters as the separate tokens -c1 ... -cn *)
separate_tokens(c, chars) ==
    IF chars = <<>> THEN c
    ELSE separate_tokens(then_token(c, <<"-", Head(chars)>>), Tail(chars))

(* what a parse has made: the match result, the running state of the     *)
(* command, the loop's locals and the outcome                              *)
parse_state(c) ==
    [self |-> c.self, matches |-> c.matches, pos_only |-> c.pos_only,
     pos_counter |-> c.pos_counter, needs_val_of |-> c.needs_val_of, out |-> c.out]

(* the shorts of the flags of the command, the injected ones included *)
flag_chars(s) ==
    {unwrap(s.flags[n].short) : n \in {k \in DOMAIN s.flags : is_some(s.flags[k].short)}}

(* the shorts of its options *)
opt_chars(s) ==
    {unwrap(s.opts[n].short) : n \in {k \in DOMAIN s.opts : is_some(s.opts[k].short)}}

(* the shorts of the flags the user declared *)
declared_flag_chars(s) ==
    {unwrap(s.flags[n].short) :
        n \in {k \in DOMAIN s.flags \ {T_hclap_help, T_vclap_version} :
                  is_some(s.flags[k].short)}}

(* the character sequences c1..cn over S, 2 <= n <= MaxCluster *)
Clusters(S) == UNION {[1..n -> S] : n \in 2..MaxCluster}

(* C9. Short clustering: at any token of the loop, a cluster of          *)
(* characters that are shorts of flags leaves the match result, the       *)
(* required and blacklist state and the outcome that the separate tokens  *)
(* leave; a cluster of declared shorts with the short of an option in it  *)
(* exits with an error.                                                    *)
C9_ShortClustering ==
    AtToken =>
      /\ \A chars \in Clusters(flag_chars(self)) :
            parse_state(loop_body(Cur, dash1(chars))) = parse_state(separate_tokens(Cur, chars))
      /\ \A chars \in Clusters(declared_flag_chars(self) \cup opt_chars(self)) :
            (\E i \in DOMAIN chars : chars[i] \in opt_chars(self))
              => loop_body(Cur, dash1(chars)).out.code = 1

(* -bbb for the multiple flag b: three occurrences *)
C9_Witness_ThreeOccurrences ==
    /\ pc = "loop"
    /\ last.tok = dash1(N_b \o N_b \o N_b)
    /\ supplied(matches, N_b)
    /\ matches.args[N_b].occurrences = 3

(* the non-empty values an option may be given *)
Values == {V_x, V_y, V_xy}

(* the options of the command that have a long *)
long_opts(s) == {n \in DOMAIN s.opts : is_some(s.opts[n].long)}

(* --opt val *)
two_tokens(c, l, v) == then_token(loop_body(c, dash2(l)), v)

(* --opt=val *)
inline(c, l, v) == loop_body(c, eq(dash2(l), v))

(* C10. Option value forms: at any token of the loop, for every option   *)
(* and non-empty value, when --opt val and --opt=val both succeed they    *)
(* leave the same match entry of the option.                               *)
C10_OptionValueForms ==
    AtToken =>
      \A n \in long_opts(self) : \A v \in Values :
          (/\ two_tokens(Cur, unwrap(self.opts[n].long), v).out = Running
           /\ inline(Cur, unwrap(self.opts[n].long), v).out = Running)
            => two_tokens(Cur, unwrap(self.opts[n].long), v).matches.args[n]
                 = inline(Cur, unwrap(self.opts[n].long), v).matches.args[n]

----------------------------------------------------------------------------
(* Token forms and positions *)

(* the loop has taken one more token in this step *)
TokenTaken == pc = "loop" /\ consumed' # consumed

(* `--name=`: dashes, a name, and one "=" at the very end *)
EmptyInline(tok) ==
    /\ Len(tok) > 2
    /\ tok[Len(tok)] = "="
    /\ \A i \in 1..(Len(tok) - 1) : tok[i] # "="

(* C11. A token taken as a long argument that ends in its only "=", so   *)
(* that the inline value is empty, ends the process with the             *)
(* requires-a-value error and exit status 1, and leaves the matches as   *)
(* they were: nothing is recorded for the name.                          *)
C11_EmptyInlineValue ==
    [][(TokenTaken /\ last'.class = "long" /\ EmptyInline(last'.tok))
          => /\ pc' = "exit"
             /\ outcome' = [msg |-> "requires a value", code |-> 1]
             /\ matches' = matches]_vars

(* `--mm=` after an occurrence of the option m was recorded *)
C11_Witness_AfterOccurrence ==
    /\ pc = "exit"
    /\ outcome.msg = "requires a value"
    /\ last.class = "long"
    /\ EmptyInline(last.tok)
    /\ N_m \in DOMAIN matches.args

(* C12. Once the sentinel `--` has set pos_only, every further token of  *)
(* the command is taken as a positional value, whatever it begins with,  *)
(* and pos_only stays set while the command's loop runs.                 *)
C12_EndOfOptions ==
    [][(TokenTaken /\ pos_only)
          => /\ last'.class = "positional"
             /\ pc' = "loop" => (pos_only' /\ parents' = parents)]_vars

(* a positional of the command has taken an earlier token *)
EarlierPositional ==
    \E i \in DOMAIN self.positionals_idx :
        contains_key(matches.args, self.positionals_idx[i].name)

(* the token taken in this step is bare (no pending option takes it as   *)
(* its value) and is the name of a subcommand of the command              *)
BareSubcommandName ==
    /\ TokenTaken
    /\ is_none(needs_val_of)
    /\ contains_key(self.subcommands, last'.tok)

(* C13. A bare token that names a subcommand is dispatched as that       *)
(* subcommand when no positional token came before it in the command,    *)
(* and is taken as a positional value when one did.                      *)
C13_SubcommandPosition ==
    [][BareSubcommandName
          => last'.class = IF EarlierPositional THEN "positional" ELSE "subcommand"]_vars

----------------------------------------------------------------------------
(* Subcommand binary names *)

RECURSIVE words_joined(_)
(* the words with one space between them *)
words_joined(ws) ==
    IF ws = <<>> THEN <<>>
    ELSE IF Len(ws) = 1 THEN ws[1]
    ELSE ws[1] \o <<" ">> \o words_joined(Tail(ws))

(* the bin_name of the top-level command, if it has one, and the names   *)
(* of the first d subcommands dispatched                                  *)
QualifiedWords(d) ==
    (IF is_some(parents[1].app.bin_name) THEN <<unwrap(parents[1].app.bin_name)>> ELSE <<>>)
      \o [j \in 1..d |-> parents[j].sub]

QualifiedName(d) == words_joined(QualifiedWords(d))

(* C14. At every depth the bin_name of a dispatched subcommand is the    *)
(* parent's bin_name, a space and the subcommand's name, and the usage   *)
(* attached to the match of that subcommand is made with this name.      *)
C14_SubcommandBinName ==
    /\ parents # <<>> => self.bin_name = Some(QualifiedName(Len(parents)))
    /\ \A d \in 2..Len(parents) :
          /\ parents[d].app.bin_name = Some(QualifiedName(d - 1))
          /\ is_some(parents[d].matches.usage)
          /\ is_none(unwrap(parents[d].matches.usage).custom)
          /\ unwrap(parents[d].matches.usage).bin = QualifiedName(d - 1)
    /\ (pc = "returned" /\ parents # <<>>)
          => /\ is_none(unwrap(matches.usage).custom)
             /\ unwrap(matches.usage).bin = QualifiedName(Len(parents))

(* `prog s k`: the usage of the innermost match is made with "prog s k"  *)
C14_Witness_TwoLevels ==
    /\ pc = "returned"
    /\ Len(parents) = 2
    /\ unwrap(matches.usage).bin = Prog \o <<" ">> \o N_s \o <<" ">> \o N_k

----------------------------------------------------------------------------
(* Positionals *)

(* the positional with the highest index of the running command *)
LastPositional == self.positionals_idx[Max(DOMAIN self.positionals_idx)]

(* the running command has positionals and the last one is `multiple` *)
LastIsMultiple == DOMAIN self.positionals_idx # {} /\ LastPositional.multiple

(* the values recorded so far for the name n *)
values_so_far(n) == IF contains_key(matches.args, n) THEN unwrap(matches.args[n].values) ELSE <<>>

(* this step gives one more positional token to the last positional *)
GreedyStep ==
    /\ TokenTaken
    /\ LastIsMultiple
    /\ pos_counter = LastPositional.index
    /\ last'.class = "positional"
    /\ pc' = "loop"

(* C15. When the last positional, of index N, is `multiple`: the N-th    *)
(* and every later positional token is appended to its values in input   *)
(* order, its occurrences is the number of these tokens, and pos_counter *)
(* never goes beyond N.                                                   *)
C15_MultiplePositionalGreed ==
    /\ []((pc = "loop" /\ LastIsMultiple)
            => /\ pos_counter <= LastPositional.index
               /\ contains_key(matches.args, LastPositional.name)
                    => matches.args[LastPositional.name].occurrences
                         = Len(values_so_far(LastPositional.name)))
    /\ [][GreedyStep
            => /\ pos_counter' = pos_counter
               /\ contains_key(matches'.args, LastPositional.name)
               /\ matches'.args[LastPositional.name].values
                    = Some(Append(values_so_far(LastPositional.name), last'.tok))
               /\ matches'.args[LastPositional.name].occurrences
                    = Len(values_so_far(LastPositional.name)) + 1]_vars

(* three tokens, all to the one `multiple` positional q *)
C15_Witness_ThreeValues ==
    /\ pc = "returned"
    /\ DOMAIN self.positionals_idx = {1}
    /\ contains_key(matches.args, N_q)
    /\ matches.args[N_q].occurrences = 3
    /\ matches.args[N_q].values = Some(<<V_x, V_y, V_x>>)

(* every positional up to a required one is marked required and is in    *)
(* the required set                                                       *)
prefix_required(s) ==
    \A k \in DOMAIN s.positionals_idx :
        s.positionals_idx[k].required
          => \A i \in DOMAIN s.positionals_idx :
                i <= k => /\ s.positionals_idx[i].required
                          /\ s.positionals_idx[i].name \in s.required

(* every positional up to a required one is supplied *)
prefix_supplied(s, m) ==
    \A k \in DOMAIN s.positionals_idx :
        s.positionals_idx[k].required
          => \A i \in DOMAIN s.positionals_idx :
                i <= k => supplied(m, s.positionals_idx[i].name)

(* the validated commands that get_matches has pre-flighted: the         *)
(* top-level command and its subcommands                                  *)
ValidatedPreflighted ==
    (IF pc = "returned" /\ Len(parents) <= 1
     THEN {[app |-> self, matches |-> matches]} ELSE {})
      \cup {[app |-> parents[i].app, matches |-> parents[i].matches] :
              i \in DOMAIN parents \cap {1, 2}}

----------------------------------------------------------------------------
(* The pre-flight *)

(* the indices are exactly 1..N *)
contiguous(s) == DOMAIN s.positionals_idx = 1..Cardinality(DOMAIN s.positionals_idx)

(* get_matches has run the pre-flight and it did not panic *)
PreflightPassed == pc # "built" /\ outcome.msg # "panic"

(* C17. Positional contiguity: the pre-flight passes only a command      *)
(* whose positional indices are exactly 1..N, and panics on every other  *)
(* set of indices.                                                        *)
C17_PositionalContiguity ==
    /\ pc = "built" => (~contiguous(self) => IsPanic(verify_positionals(self)))
    /\ (PreflightPassed /\ parents = <<>>) => contiguous(self)

(* the pre-flight has been applied to the command: it does not panic on  *)
(* it and would mark no further positional required                       *)
preflighted(s) ==
    /\ ~IsPanic(verify_positionals(s))
    /\ \A i \in below_required(s.positionals_idx) : s.positionals_idx[i].required

RECURSIVE preflighted_at_every_depth(_)
preflighted_at_every_depth(s) ==
    /\ preflighted(s)
    /\ \A n \in DOMAIN s.subcommands : preflighted_at_every_depth(s.subcommands[n])

(* C18. Pre-flight coverage: when get_matches goes on to parse, the      *)
(* pre-flight has been applied to the top-level command and to its       *)
(* subcommands at every depth, so that every command a token is parsed   *)
(* by has passed it.                                                      *)
C18_PreflightCoverage ==
    /\ (pc = "loop" /\ parents = <<>> /\ consumed = <<>>) => preflighted_at_every_depth(self)
    /\ PreflightPassed => preflighted(self)

(* at most one positional is `multiple`, and it has the highest index *)
multiple_is_last(s) ==
    /\ Cardinality({i \in DOMAIN s.positionals_idx : s.positionals_idx[i].multiple}) <= 1
    /\ \A i \in DOMAIN s.positionals_idx :
          s.positionals_idx[i].multiple => i = Max(DOMAIN s.positionals_idx)

(* C19. A command that passes the pre-flight of get_matches has at most  *)
(* one `multiple` positional, the one of the highest index; get_matches  *)
(* panics when the command or one of its subcommands has a `multiple`    *)
(* positional that is not the one of the highest index.                  *)
C19_MultipleIsLast ==
    /\ pc = "built"
          => ((~multiple_is_last(self)
                 \/ \E n \in DOMAIN self.subcommands : ~multiple_is_last(self.subcommands[n]))
                => IsPanic(verified(self)))
    /\ (PreflightPassed /\ Len(parents) <= 1) => multiple_is_last(self)

(* get_matches panicked on the indices 1 and 2 with a `multiple` at 1 *)
C19_Witness_MultipleFirst ==
    /\ pc = "exit"
    /\ outcome.msg = "panic"
    /\ last.stage = "none"
    /\ DOMAIN self.positionals_idx = {1, 2}
    /\ self.positionals_idx[1].multiple

----------------------------------------------------------------------------
(* Registration *)

(* the flags and options registered in a command, by category and key *)
registered(s) ==
    {<<"flag", n>> : n \in DOMAIN s.flags} \cup {<<"opt", n>> : n \in DOMAIN s.opts}

(* the FlagBuilder or OptBuilder of such an entry *)
builder(s, e) == IF e[1] = "flag" THEN s.flags[e[2]] ELSE s.opts[e[2]]

(* the names registered, one for each flag, option and positional *)
registered_names(s) ==
    [e \in registered(s) \cup {<<"pos", i>> : i \in DOMAIN s.positionals_idx} |->
        IF e[1] = "pos" THEN s.positionals_idx[e[2]].name ELSE builder(s, e).name]

shorts_in_use(s) ==
    {unwrap(builder(s, e).short) : e \in {r \in registered(s) : is_some(builder(s, r).short)}}

longs_in_use(s) ==
    {unwrap(builder(s, e).long) : e \in {r \in registered(s) : is_some(builder(s, r).long)}}

(* no two registered arguments share a name, a short or a long *)
unique(s) ==
    /\ \A e, f \in DOMAIN registered_names(s) :
          e # f => registered_names(s)[e] # registered_names(s)[f]
    /\ \A e, f \in registered(s) :
          e # f => /\ (is_some(builder(s, e).short) /\ is_some(builder(s, f).short))
                        => builder(s, e).short # builder(s, f).short
                   /\ (is_some(builder(s, e).long) /\ is_some(builder(s, f).long))
                        => builder(s, e).long # builder(s, f).long

(* the declaration repeats a name, a short or a long of the command *)
repeats(s, a) ==
    \/ a.name \in Range(registered_names(s))
    \/ is_some(a.short) /\ unwrap(a.short) \in shorts_in_use(s)
    \/ is_some(a.long) /\ unwrap(a.long) \in longs_in_use(s)

(* C20. Uniqueness: after any sequence of arg() calls that returned, no  *)
(* two registered arguments share a name, a short or a long, and an      *)
(* arg() call with a declaration that repeats one of them panics,        *)
(* whatever the categories of the two.                                    *)
C20_Uniqueness ==
    pc = "built"
      => /\ unique(self)
         /\ \A a \in ArgPool : repeats(self, a) => IsPanic(arg(self, a))

(* the option k with the long of the flag a is rejected *)
C20_Witness_LongAcrossCategories ==
    /\ pc = "exit"
    /\ outcome.msg = "panic"
    /\ last.stage = "arg"
    /\ last.tok = N_k
    /\ contains_key(self.flags, N_a)
    /\ ~contains_key(self.opts, N_k)

(* the declaration contradicts itself: an index with a short or a long,  *)
(* an index or no short and no long with takes_value, or a flag that is  *)
(* required or has possible values                                        *)
contradictory(a) ==
    \/ is_some(a.index) /\ (is_some(a.short) \/ is_some(a.long))
    \/ is_some(a.index) /\ a.takes_value
    \/ is_none(a.short) /\ is_none(a.long) /\ a.takes_value
    \/ /\ is_none(a.index) /\ ~a.takes_value
       /\ is_some(a.short) \/ is_some(a.long)
       /\ a.required \/ is_some(a.possible_vals)

(* the stores of the command that hold an argument of that name *)
stores_of(s, n) ==
    (IF contains_key(s.flags, n) THEN {"flags"} ELSE {})
      \cup (IF contains_key(s.opts, n) THEN {"opts"} ELSE {})
      \cup (IF \E i \in DOMAIN s.positionals_idx : s.positionals_idx[i].name = n
            THEN {"positionals_idx"} ELSE {})

----------------------------------------------------------------------------
(* the flags the user declared: the store without the two injected ones *)
user_flags(s) == DOMAIN s.flags \ {T_hclap_help, T_vclap_version}

(* the flag or option the user declared with this short *)
user_short(s, ch) ==
    {n \in user_flags(s) : s.flags[n].short = Some(ch)}
      \cup {n \in DOMAIN s.opts : s.opts[n].short = Some(ch)}

(* the flag or option the user declared with this long *)
user_long(s, l) ==
    {n \in user_flags(s) : s.flags[n].long = Some(l)}
      \cup {n \in DOMAIN s.opts : s.opts[n].long = Some(l)}

hits_of(h) == {h[i] : i \in DOMAIN h}

(* every other character of the short token is a multiple flag of the     *)
(* command that nothing supplied so far conflicts with                    *)
others_pass(s, tok, ch) ==
    \A i \in DOMAIN tok :
        tok[i] \notin {"-", ch}
          => \E n \in user_flags(s) : /\ s.flags[n].short = Some(tok[i])
                                      /\ s.flags[n].multiple
                                      /\ n \notin s.blacklist

(* the loop takes the token as a short argument and it holds ch *)
ShortWith(ch) ==
    /\ TokenTaken
    /\ last'.class = "short"
    /\ \E i \in DOMAIN last'.tok : last'.tok[i] = ch
    /\ others_pass(self, last'.tok, ch)

(* the loop takes exactly this token, as a short or long argument *)
Takes(tok, cls) == TokenTaken /\ last'.class = cls /\ last'.tok = tok

Stopped(msg) == pc' = "exit" /\ outcome' = [msg |-> msg, code |-> 0]

(* the claimant of the short is found by the lookup, and no help or version is printed *)
ClaimantHit(ch) ==
    /\ outcome'.msg \notin {"help", "version"}
    /\ \E n \in user_short(self, ch) : n \in hits_of(last'.hits)

(* C22 as stated: with the short claimed, the token holding it, alone or in *)
(* a cluster, finds the claimant.                                            *)
C22_ClaimedShortAlwaysMatches ==
    [][/\ ShortWith("h") /\ user_short(self, "h") # {} => ClaimantHit("h")
       /\ ShortWith("v") /\ user_short(self, "v") # {} => ClaimantHit("v")]_vars

(* C22. The token -h prints the help exactly when no argument of the user  *)
(* has the short h, and --help exactly when none has the long help, and    *)
(* likewise -v and --version for the version.  With the short claimed, the *)
(* token never prints the help: alone it finds the claimant, in a cluster  *)
(* it finds the claimant when that is a flag and is rejected as unknown    *)
(* when that is an option.                                                  *)
C22_AutoHelpVersion ==
    [][/\ Takes(dash1(C_h), "short") => (Stopped("help") <=> user_short(self, "h") = {})
       /\ Takes(dash2(T_help), "long") => (Stopped("help") <=> user_long(self, T_help) = {})
       /\ Takes(dash1(C_v), "short") => (Stopped("version") <=> user_short(self, "v") = {})
       /\ Takes(dash2(T_version), "long")
            => (Stopped("version") <=> user_long(self, T_version) = {})
       /\ \A ch \in {"h", "v"} :
            ShortWith(ch) /\ user_short(self, ch) # {}
              => IF Len(last'.tok) = 2 \/ user_short(self, ch) \subseteq user_flags(self)
                 THEN ClaimantHit(ch)
                 ELSE /\ pc' = "exit" /\ outcome' = [msg |-> "unknown", code |-> 1]
                      /\ \A n \in user_short(self, ch) : n \notin hits_of(last'.hits)]_vars

(* the user's flag d has the short h and the cluster -ah counts it *)
C22_Witness_ClaimedInCluster ==
    /\ pc = "loop" /\ last.tok = dash1(N_a \o C_h) /\ last.class = "short"
    /\ user_short(self, "h") = {N_d}
    /\ contains_key(matches.args, N_d)

(* the user's option d has the short h and the cluster -ah is rejected *)
C22_Witness_OptionInCluster ==
    /\ pc = "exit" /\ last.tok = dash1(N_a \o C_h) /\ last.class = "short"
    /\ contains_key(self.opts, N_d)
    /\ outcome.msg = "unknown"

----------------------------------------------------------------------------
(* C23. The bare token help prints the help and exits when it names the   *)
(* injected subcommand; when the user declared a subcommand named help,   *)
(* the token is dispatched to it like any other subcommand and no help is *)
(* printed.                                                                *)
C23_UserHelpSubcommand ==
    [][Takes(T_help, "subcommand")
         => IF self.needs_subcmd_help THEN Stopped("help") ELSE outcome'.msg # "help"]_vars

----------------------------------------------------------------------------
(* The key order of the BTreeMap<&str, _> stores: str compares byte by    *)
(* byte, and these are the bytes of the model in ascending order.         *)

Alphabet ==
    <<"-", "=", "_", "a", "b", "c", "d", "e", "f", "g", "h", "i", "j", "k", "l", "m",
      "n", "o", "p", "q", "r", "s", "t", "u", "v", "w", "x", "y", "z">>

ord(ch) == CHOOSE i \in DOMAIN Alphabet : Alphabet[i] = ch

RECURSIVE str_lt(_, _)
(* <str as Ord>::lt *)
str_lt(a, b) ==
    IF b = <<>> THEN FALSE
    ELSE IF a = <<>> THEN TRUE
    ELSE IF Head(a) = Head(b) THEN str_lt(Tail(a), Tail(b))
    ELSE ord(Head(a)) < ord(Head(b))

least(S) == CHOOSE x \in S : \A y \in S \ {x} : str_lt(x, y)

RECURSIVE in_key_order(_)
(* BTreeMap::values(): the entries by ascending key *)
in_key_order(S) ==
    IF S = {} THEN <<>> ELSE <<least(S)>> \o in_key_order(S \ {least(S)})

(* print_help, lines 786-804: the rows of the FLAGS section *)
flags_section(s) == in_key_order(DOMAIN s.flags)

row_of(rows, n) == CHOOSE i \in DOMAIN rows : rows[i] = n

(* C24. In the FLAGS section of the help, which iterates the flag store in *)
(* key order, the injected flags hclap_help and vclap_version come after   *)
(* every flag the user declared.                                            *)
C24_UserFlagsFirst ==
    \A u \in user_flags(self) :
        \A inj \in DOMAIN self.flags \cap {T_hclap_help, T_vclap_version} :
            row_of(flags_section(self), u) < row_of(flags_section(self), inj)

----------------------------------------------------------------------------
(* the token list holds a Name and a Short or Long, in any order *)
NameWithDashed(ts) ==
    \E i, j \in DOMAIN ts : ts[i].kind \in {"Short", "Long"} /\ ts[j].kind = "Name"

(* the token list holds a Name somewhere after a Short or Long *)
NameAfterDashed(ts) ==
    \E i, j \in DOMAIN ts : i < j /\ ts[i].kind \in {"Short", "Long"} /\ ts[j].kind = "Name"

(* from_usage returned its Arg and App::arg took or refused it *)
Assembled == usage.stage \in {"registered", "refused"}

RegisteredAsOption ==
    /\ usage.stage = "registered"
    /\ contains_key(self.opts, unwrap(usage.name))
    /\ ~contains_key(self.flags, unwrap(usage.name))

(* C25 as stated: a Name and a Short or Long anywhere in the token list   *)
(* make the declaration an option.                                         *)
C25_AnyNameWithDashedTakesValue ==
    Assembled /\ NameWithDashed(usage.tokens) => usage.takes_value /\ RegisteredAsOption

(* C25. The assembled declaration has takes_value = true, and is          *)
(* registered as an option, exactly when a Name token comes after a Short  *)
(* or Long token of the list; a Name that comes before every Short and     *)
(* Long leaves takes_value = false and the declaration is not an option.   *)
C25_ValuePlaceholder ==
    Assembled
      => /\ usage.takes_value <=> NameAfterDashed(usage.tokens)
         /\ NameAfterDashed(usage.tokens) => RegisteredAsOption
         /\ ~NameAfterDashed(usage.tokens) => ~contains_key(self.opts, unwrap(usage.name))

(* `--config <c>`: the Name after the Long makes an option *)
C25_Witness_NameAfterLong ==
    /\ usage.stage = "registered"
    /\ usage.tokens = <<Long(U_config), Name(N_c, Some(TRUE))>>
    /\ contains_key(self.opts, N_c) /\ self.opts[N_c].required

(* `[conf] -c`: the Name before the Short leaves a flag *)
C25_Witness_NameBeforeShort ==
    /\ usage.stage = "registered"
    /\ usage.tokens = <<Name(U_conf, Some(FALSE)), Short("c")>>
    /\ contains_key(self.flags, U_conf)

(* the for_match! loop takes a Name while a name and a long are set *)
SecondNameAfterLong ==
    /\ usage.stage = "parsing"
    /\ usage.parser # <<>>
    /\ usage'.parser = Tail(usage.parser)
    /\ Head(usage.parser).kind = "Name"
    /\ is_some(usage.name)
    /\ is_some(usage.long)

(* C26. A second Name seen after a Long replaces the name only if the     *)
(* current name equals the long; a first name that differs from the long   *)
(* is kept.                                                                 *)
C26_NamePrecedence ==
    [][SecondNameAfterLong
         => usage'.name = IF unwrap(usage.name) = unwrap(usage.long)
                          THEN Some(Head(usage.parser).text)
                          ELSE usage.name]_vars

----------------------------------------------------------------------------
(* the names of the positionals of the command *)
positional_names(s) == {s.positionals_idx[i].name : i \in DOMAIN s.positionals_idx}

(* the entry of the name is as the contract of the match result has it *)
entry_in_contract(f, n) ==
    /\ f.matches.args[n].occurrences >= 1
    /\ contains_key(f.app.flags, n) => is_none(f.matches.args[n].values)
    /\ contains_key(f.app.opts, n) \/ n \in positional_names(f.app)
         => is_some(f.matches.args[n].values)

(* C27. In the match result a successful parse returns, at the top level  *)
(* and in every nested subcommand, each entry has occurrences >= 1, the    *)
(* entries of options and positionals have values and those of flags have  *)
(* none.                                                                    *)
C27_MatchResultContract ==
    pc = "returned"
      => \A f \in Validated : \A n \in DOMAIN f.matches.args : entry_in_contract(f, n)

(* a returned result with a flag and an option that got its value from   *)
(* the token after it                                                      *)
C27_Witness_FlagAndOption ==
    /\ pc = "returned"
    /\ \E n \in DOMAIN matches.args : contains_key(self.flags, n)
    /\ \E n \in DOMAIN matches.args :
          /\ contains_key(self.opts, n)
          /\ matches.args[n].values = Some(<<V_x>>)
    /\ consumed[Len(consumed)] = V_x
    /\ Len(consumed) = MaxArgs

----------------------------------------------------------------------------
(* the i-th lookup of the token the loop takes finds a flag or option that *)
(* is not multiple and that the stream has supplied already                *)
RepeatedAt(i) ==
    /\ TokenTaken
    /\ last'.class \in {"short", "long"}
    /\ ~decl(self, last'.hits[i]).multiple
    /\ \/ supplied(matches, last'.hits[i])
       \/ \E j \in 1..(i - 1) : last'.hits[j] = last'.hits[i]

Failed(msg) == pc' = "exit" /\ outcome' = [msg |-> msg, code |-> 1]

(* the returned frames count every flag and option that is not multiple once *)
SingleOccurrences ==
    pc = "returned"
      => \A f \in Validated : \A n \in DOMAIN f.matches.args :
            /\ contains_key(f.app.flags, n) \/ contains_key(f.app.opts, n)
            /\ ~decl(f.app, n).multiple
            => f.matches.args[n].occurrences = 1

(* C28 as stated: the second supply of a flag or option that is not        *)
(* multiple always fails with the supplied-more-than-once error.           *)
C28_RepeatAlwaysReportedAsRepeat ==
    [][\A i \in DOMAIN last'.hits : RepeatedAt(i) => Failed("repeat")]_vars

(* C28. The second supply of a flag or option that is not multiple, in    *)
(* short, long, clustered or inline-value form, ends the parse at that     *)
(* lookup with exit code 1: with the conflict error when the argument is   *)
(* on the blacklist, and with the supplied-more-than-once error when it is *)
(* not and the token holds no other lookup.  A successful parse leaves     *)
(* occurrences = 1 for every flag and option that is not multiple.          *)
C28_RepetitionRule ==
    [][/\ \A i \in DOMAIN last'.hits :
            RepeatedAt(i)
              => /\ i = Len(last'.hits)
                 /\ Failed("repeat") \/ Failed("conflict")
                 /\ last'.hits[i] \in self.blacklist => Failed("conflict")
                 /\ last'.hits[i] \notin self.blacklist /\ Len(last'.hits) = 1
                      => Failed("repeat")
       /\ SingleOccurrences']_vars

(* the flag is supplied a second time, in a cluster, and the parse fails   *)
(* with the supplied-more-than-once error                                   *)
C28_Witness_RepeatInCluster ==
    /\ pc = "exit" /\ outcome.msg = "repeat"
    /\ last.class = "short" /\ Len(last.tok) > 2
    /\ Len(consumed) > 1
    /\ supplied(matches, LastHit)

(* the flag is supplied a second time after one that conflicts with it *)
C28_Witness_RepeatOfBlacklisted ==
    /\ pc = "exit" /\ outcome.msg = "conflict"
    /\ last.hits # <<>>
    /\ supplied(matches, LastHit)
    /\ ~decl(self, LastHit).multiple

----------------------------------------------------------------------------
Violations == {"unknown", "invalid value", "requires a value", "repeat", "conflict", "required"}

(* the token the loop takes as a long or short argument names nothing the *)
(* command declares, and asks for no help or version                       *)
NothingFound ==
    /\ TokenTaken
    /\ last'.class \in {"long", "short"}
    /\ last'.hits = <<>>
    /\ outcome'.msg \notin {"help", "version"}

(* the stream ends while the blacklist holds a supplied argument *)
ConflictAtEnd ==
    /\ pc = "loop"
    /\ pc' # "loop"
    /\ consumed' = consumed
    /\ is_none(needs_val_of)
    /\ \E n \in self.blacklist : supplied(matches, n)

(* what is left of the process after its exit, or of the call after its return *)
Settled ==
    /\ pc = "exit"
         => /\ is_none(result)
            /\ \/ outcome.msg \in Violations /\ outcome.code = 1
               \/ outcome.msg \in {"help", "version"} /\ outcome.code = 0
               \/ outcome.msg = "panic" /\ outcome.code = 101
    /\ pc # "exit" => outcome = Running
    /\ is_some(result) <=> pc = "returned"

(* C29. Every detected violation ends the process with exit code 1 and    *)
(* no match result; the help and the version end it with exit code 0; and  *)
(* nothing runs after a report.                                             *)
C29_OutcomeClasses ==
    [][/\ Settled'
       /\ NothingFound => pc' = "exit" /\ outcome'.code = 1 /\ outcome'.msg \in Violations
       /\ ConflictAtEnd => pc' = "exit" /\ outcome' = [msg |-> "conflict", code |-> 1]
       /\ pc = "exit" => UNCHANGED vars]_vars

(* an unknown long argument after a flag was counted: exit code 1 *)
C29_Witness_UnknownAfterFlag ==
    /\ pc = "exit"
    /\ outcome = [msg |-> "unknown", code |-> 1]
    /\ last.class = "long" /\ last.hits = <<>>
    /\ DOMAIN matches.args # {}
    /\ is_none(result)

----------------------------------------------------------------------------
(* the stream of the running command ends while an option awaits its value *)
EndsAwaitingValue ==
    /\ pc = "loop"
    /\ pc' # "loop"
    /\ consumed' = consumed
    /\ is_some(needs_val_of)

(* no returned frame holds an option without a value *)
NoEmptyOption ==
    pc = "returned"
      => /\ is_none(needs_val_of)
         /\ \A f \in Validated : \A n \in DOMAIN f.matches.args :
               contains_key(f.app.opts, n)
                 => is_some(f.matches.args[n].values) /\ unwrap(f.matches.args[n].values) # <<>>

(* C30. When the token stream of a command ends while needs_val_of is set, *)
(* the parse fails with the requires-a-value error, and no match result of *)
(* a successful parse holds an option entry with an empty list of values.   *)
C30_MissingValueAtEnd ==
    [][/\ EndsAwaitingValue
            => pc' = "exit" /\ outcome' = [msg |-> "requires a value", code |-> 1]
       /\ NoEmptyOption']_vars

(* the stream ended right after the option: its entry has no value and the *)
(* parse failed                                                             *)
C30_Witness_OptionLast ==
    /\ pc = "exit"
    /\ outcome.msg = "requires a value"
    /\ last.stage = "after"
    /\ is_some(needs_val_of)
    /\ matches.args[unwrap(needs_val_of)].values = Some(<<>>)

----------------------------------------------------------------------------
(* the token the loop takes in this step *)
Taken == consumed'[Len(consumed')]

(* the loop takes a token while an option awaits its value *)
AwaitedTurn == TokenTaken /\ is_some(needs_val_of)

(* the token became the last value of the awaited option and nothing else *)
(* of the frame moved                                                      *)
TakenAsValue ==
    /\ pc' = "loop"
    /\ needs_val_of' = None
    /\ pos_only' = pos_only
    /\ pos_counter' = pos_counter
    /\ parents' = parents
    /\ DOMAIN matches'.args = DOMAIN matches.args
    /\ matches'.args[unwrap(needs_val_of)].values
         = Some(Append(unwrap(matches.args[unwrap(needs_val_of)].values), Taken))
    /\ \A n \in DOMAIN matches.args \ {unwrap(needs_val_of)} :
          matches'.args[n] = matches.args[n]
    /\ self'.subcommands = self.subcommands

(* C31. While needs_val_of is set, the next token is consumed as the value *)
(* of that option whatever its shape: it is appended to the option's       *)
(* values, needs_val_of is cleared, and no flag, option, subcommand or      *)
(* sentinel handling happens for it.                                        *)
C31_PendingValuePrecedence ==
    [][AwaitedTurn
         => /\ last'.class = "value"
            /\ outcome'.msg \in {"running", "invalid value"}
            /\ outcome' = Running => TakenAsValue]_vars

(* the option -h of the user is followed by --help, which is its value *)
C31_Witness_HelpAsValue ==
    /\ pc = "loop"
    /\ consumed = <<dash1(C_h), dash2(T_help)>>
    /\ matches.args[N_d].values = Some(<<dash2(T_help)>>)
    /\ is_none(needs_val_of)

(* the option is followed by the sentinel, which is its value *)
C31_Witness_SentinelAsValue ==
    /\ pc = "loop"
    /\ Len(consumed) = 2
    /\ consumed[2] = <<"-", "-">>
    /\ last.class = "value"
    /\ ~pos_only

----------------------------------------------------------------------------
(* the frames of the enclosing commands stay as the dispatch left them *)
ParentsKept ==
    /\ Len(parents') >= Len(parents)
    /\ \A i \in DOMAIN parents : parents'[i] = parents[i]

(* the loop takes the name of a subcommand and the parent's validation passes *)
Dispatched == TokenTaken /\ last'.class = "subcommand" /\ pc' = "loop"

(* the frame the dispatch leaves of the parent holds what the tokens before *)
(* the name gave it, and the subcommand starts afresh                       *)
FrameOfParent ==
    /\ Len(parents') = Len(parents) + 1
    /\ parents'[Len(parents')].matches.args = matches.args
    /\ parents'[Len(parents')].app.required = self.required
    /\ parents'[Len(parents')].app.blacklist = self.blacklist
    /\ parents'[Len(parents')].sub = Taken
    /\ self'.name = Taken
    /\ matches' = ArgMatches_new
    /\ pos_counter' = 1 /\ ~pos_only' /\ is_none(needs_val_of')

(* every frame holds entries of its own command only *)
OwnEntriesOnly ==
    /\ pc \in {"loop", "returned"} => DOMAIN matches.args \subseteq declared(self)
    /\ \A i \in DOMAIN parents : DOMAIN parents[i].matches.args \subseteq declared(parents[i].app)

(* the returned result is that of the outermost frame, with the next one nested *)
ResultNested ==
    pc = "returned" /\ parents # <<>>
      => /\ unwrap(result).args = parents[1].matches.args
         /\ unwrap(unwrap(result).subcommand).name = parents[1].sub

(* C32. After a subcommand name is matched the parent's loop is over: the  *)
(* later tokens go to the subcommand's engine only, the parent's entries   *)
(* and its required and blacklist sets stay as they were at the name, the   *)
(* nested result holds arguments of the subcommand only, and the parent is  *)
(* validated on the tokens before the name.                                 *)
C32_SubcommandIsolation ==
    [][/\ ParentsKept
       /\ Dispatched => FrameOfParent
       /\ OwnEntriesOnly'
       /\ ResultNested']_vars

(* the positional x went to the subcommand s after the parent took one of  *)
(* its own: both frames have an entry and the parse returned                *)
C32_Witness_BothFrames ==
    /\ pc = "returned"
    /\ Len(parents) = 1
    /\ DOMAIN parents[1].matches.args # {}
    /\ DOMAIN matches.args # {}
    /\ Len(consumed) = MaxArgs

----------------------------------------------------------------------------
(* the positionals of the command are 1..N and none is multiple *)
SlotsInOrder(s) ==
    /\ DOMAIN s.positionals_idx = 1..Cardinality(DOMAIN s.positionals_idx)
    /\ \A i \in DOMAIN s.positionals_idx : ~s.positionals_idx[i].multiple

(* the slots the stream has filled so far *)
filled(s, m) == {i \in DOMAIN s.positionals_idx : supplied(m, s.positionals_idx[i].name)}

(* the token taken as a positional is recorded under the slot pos_counter, *)
(* which moves on by one                                                    *)
SlotTaken ==
    /\ pos_counter \in DOMAIN self.positionals_idx
    /\ pos_counter' = pos_counter + 1
    /\ matches'.args[self.positionals_idx[pos_counter].name]
         = [occurrences |-> 1, values |-> Some(<<Taken>>)]
    /\ \A n \in DOMAIN matches.args : matches'.args[n] = matches.args[n]

(* C33. With positionals 1..N, none multiple, the k-th token a command     *)
(* takes as a positional is recorded under positional k, whatever flags,    *)
(* options and option values come before or between; a token past N is      *)
(* refused; pos_counter never decreases and is 1 + the number of            *)
(* positional tokens taken so far.                                           *)
C33_PositionalSlots ==
    [][/\ TokenTaken /\ SlotsInOrder(self) /\ last'.class = "positional"
            => /\ outcome' = Running => SlotTaken
               /\ pos_counter \notin DOMAIN self.positionals_idx => Failed("unknown")
       /\ TokenTaken /\ SlotsInOrder(self) /\ last'.class # "positional"
            /\ pc' = "loop" /\ parents' = parents
            => pos_counter' = pos_counter
       /\ pc' = "loop" /\ SlotsInOrder(self')
            => filled(self', matches') = 1..(pos_counter' - 1)]_vars

(* the option's value and a flag came before and between: x is p, y is q *)
C33_Witness_Interleaved ==
    /\ pc = "loop"
    /\ consumed = <<V_x, dash1(N_a), V_y>>
    /\ SlotsInOrder(self)
    /\ pos_counter = 3
    /\ matches.args[N_p].values = Some(<<V_x>>)
    /\ matches.args[N_q].values = Some(<<V_y>>)

----------------------------------------------------------------------------
(* the longs and the shorts the stores of the command hold *)
longs_of(s) ==
    {unwrap(s.flags[n].long) : n \in {k \in DOMAIN s.flags : is_some(s.flags[k].long)}}
      \cup {unwrap(s.opts[n].long) : n \in {k \in DOMAIN s.opts : is_some(s.opts[k].long)}}

shorts_of(s) ==
    {unwrap(s.flags[n].short) : n \in {k \in DOMAIN s.flags : is_some(s.flags[k].short)}}
      \cup {unwrap(s.opts[n].short) : n \in {k \in DOMAIN s.opts : is_some(s.opts[k].short)}}

(* the loop takes a long token whose name no flag or option has *)
UnknownLong ==
    /\ TokenTaken
    /\ last'.class = "long"
    /\ long_name(trim_left_matches(Taken)) \notin longs_of(self)

(* the loop takes a short token of one character that no flag or option   *)
(* has and that is no live help or version trigger                          *)
UnknownShort ==
    /\ TokenTaken
    /\ last'.class = "short"
    /\ Len(Taken) = 2
    /\ Taken[2] \notin shorts_of(self)
    /\ ~(Taken[2] = "h" /\ self.needs_short_help)
    /\ ~(Taken[2] = "v" /\ self.needs_short_version)

(* the loop takes a cluster with a character that no flag or option has *)
UnknownInCluster ==
    /\ TokenTaken
    /\ last'.class = "short"
    /\ Len(Taken) > 2
    /\ \E i \in 2..Len(Taken) : Taken[i] \notin shorts_of(self) \cup {"h", "v"}

(* the loop takes a bare token and no positional has the index pos_counter *)
UnknownPositional ==
    /\ TokenTaken
    /\ last'.class = "positional"
    /\ pos_counter \notin DOMAIN self.positionals_idx

(* the token left a trace in the frame *)
Accounted ==
    \/ matches' # matches
    \/ needs_val_of' # needs_val_of
    \/ pos_only' # pos_only
    \/ parents' # parents

C34_Witness_UnknownEmptyInline ==
    /\ pc = "exit"
    /\ outcome.msg = "requires a value"
    /\ last.tok = eq(dash2(N_z \o N_z), <<>>)

----------------------------------------------------------------------------
(* the place of the first "=" of the token, and the text after it *)
first_eq(t) == CHOOSE j \in DOMAIN t : t[j] = "=" /\ \A k \in 1..(j - 1) : t[k] # "="

after_first_eq(t) == SubSeq(t, first_eq(t) + 1, Len(t))

(* the loop takes --name=value, finds an option and goes on *)
InlineValueTaken ==
    /\ TokenTaken
    /\ last'.class = "long"
    /\ contains_eq(Taken)
    /\ pc' = "loop"
    /\ last'.hits # <<>>
    /\ contains_key(self.opts, last'.hits[1])

(* the last value of the entry *)
last_value(e) == unwrap(e.values)[Len(unwrap(e.values))]

(* C35. For a long token --name=value the recorded value is the whole text *)
(* after the first "=", also when that text holds a "=" itself.             *)
C35_InlineValueWhole ==
    [][InlineValueTaken
         => last_value(matches'.args[last'.hits[1]]) = after_first_eq(Taken)]_vars

----------------------------------------------------------------------------
(* C36. A positional registered without an index gets an index that no     *)
(* positional registered before it holds, so that its registration does     *)
(* not panic, whatever indices the earlier ones were given.                  *)
C36_ImplicitIndexFree ==
    pc = "built"
      => \A a \in PositionalPool :
            is_none(a.index) /\ a.name \notin self.arg_list
              => /\ positional_index(self, a) \notin DOMAIN self.positionals_idx
                 /\ ~IsPanic(arg(self, a))

----------------------------------------------------------------------------
(* the stream of the running command ends: the loop is left for the        *)
(* post-loop validation                                                      *)
LoopExit == pc = "loop" /\ pc' # "loop" /\ consumed' = consumed

(* the required name is missing: an argument without an entry, or a group  *)
(* without a supplied member                                                 *)
missing(s, m, n) ==
    IF contains_key(s.groups, n) /\ n \notin declared(s)
    THEN \A an \in s.groups[n].args : ~supplied(m, an)
    ELSE ~supplied(m, n)

(* C37. At loop exit no argument name of the running required set has an  *)
(* entry in the matches, so the required check never rejects a stream that  *)
(* supplied every required argument.                                         *)
C37_NoFalseRequired ==
    [][LoopExit
         => /\ \A n \in self.required \cap declared(self) : ~supplied(matches, n)
            /\ Failed("required") => \E n \in self.required : missing(self, matches, n)]_vars

----------------------------------------------------------------------------
(* the bookkeeping of the flag v when the groups are iterated in the order o *)
booked(s, m, v, o) ==
    parse_group_reqs_from(flag_bookkeeping_ungrouped(s, m, v), v.name, groups_iter(s, o))

(* how get_matches_from ends when the flag v is the last token and the   *)
(* groups are iterated in the order o                                     *)
ends_as(v, o) ==
    after_loop([Cur EXCEPT !.self = booked(self, flag_occurrence(matches, v), v, o),
                           !.matches = flag_occurrence(matches, v)]).out

(* the flag named n can be supplied next *)
Suppliable(n) ==
    /\ pc = "loop"
    /\ is_none(needs_val_of)
    /\ n \in DOMAIN self.flags
    /\ n \notin self.blacklist
    /\ ~contains_key(matches.args, n)

(* C38. Deterministic outcome: for a fixed schema and token vector, the   *)
(* way the parse ends does not depend on the order in which the group map *)
(* is iterated: whatever flag is supplied last, every iteration order of  *)
(* the groups gives the same outcome                                      *)
C38_OrderFreeOutcome ==
    \A n \in DOMAIN self.flags :
        Suppliable(n) =>
            \A o1, o2 \in Perms(DOMAIN self.groups) :
                ends_as(self.flags[n], o1) = ends_as(self.flags[n], o2)

----------------------------------------------------------------------------
(* the names of the frame's entries that stand for options and positionals *)
valued(f) ==
    {n \in DOMAIN f.matches.args : n \in DOMAIN f.app.opts \cup positional_names(f.app)}

(* the entry holds as many values as it has occurrences *)
counted(e) == is_some(e.values) /\ e.occurrences = Len(unwrap(e.values))

(* w is a stretch of the token t *)
PartOf(w, t) == \E i, j \in DOMAIN t : w = SubSeq(t, i, j)

(* the values vs become ws by at most one value, put at the end and taken *)
(* from the token                                                          *)
grown(vs, ws, tok) ==
    /\ Len(ws) \in {Len(vs), Len(vs) + 1}
    /\ SubSeq(ws, 1, Len(vs)) = vs
    /\ Len(ws) = Len(vs) + 1 => PartOf(ws[Len(ws)], tok)

(* a token of the running command keeps the values of every entry in place *)
(* and puts a new one, if any, behind them                                  *)
ValuesInInputOrder ==
    \A n \in DOMAIN matches'.args :
        is_some(matches'.args[n].values)
          => grown(IF contains_key(matches.args, n) /\ is_some(matches.args[n].values)
                   THEN unwrap(matches.args[n].values) ELSE <<>>,
                   unwrap(matches'.args[n].values), Taken)

(* C39. In every match result of a successful parse each entry of an       *)
(* option or a positional has occurrences = the length of its values, and  *)
(* the values are in input order: each token leaves the values there are   *)
(* in place and adds at most one, behind them, for separate and inline     *)
(* values and for multiple and non-multiple arguments alike.               *)
C39_ValuesCounted ==
    [][/\ \A f \in Validated' : \A n \in valued(f) : counted(f.matches.args[n])
       /\ TokenTaken /\ parents' = parents => ValuesInInputOrder]_vars

(* a multiple option took an inline value and a separate one, and the      *)
(* parse succeeded                                                          *)
C39_Witness_MixedForms ==
    /\ pc = "returned"
    /\ Cardinality({i \in DOMAIN consumed : contains_eq(consumed[i])}) = 1
    /\ \E n \in DOMAIN self.opts :
          /\ self.opts[n].multiple
          /\ supplied(matches, n)
          /\ matches.args[n].occurrences = 2
          /\ Len(unwrap(matches.args[n].values)) = 2

----------------------------------------------------------------------------
(* the flag store holds the injected flag named n with the short ch *)
injected_short(s, n, ch) == contains_key(s.flags, n) /\ s.flags[n].short = Some(ch)

(* C40. Help and version triggers match the registered flags: when the    *)
(* token -h prints help the flag store holds hclap_help with the short h, *)
(* when -v prints the version it holds vclap_version with the short v,    *)
(* and no short trigger is live in a running command whose flag store     *)
(* holds no injected flag for it.                                          *)
C40_TriggersRegistered ==
    [][/\ Takes(dash1(C_h), "short") /\ Stopped("help")
            => injected_short(self, T_hclap_help, "h")
       /\ Takes(dash1(C_v), "short") /\ Stopped("version")
            => injected_short(self, T_vclap_version, "v")
       /\ pc = "loop" /\ self.needs_short_help => injected_short(self, T_hclap_help, "h")
       /\ pc = "loop" /\ self.needs_short_version
            => injected_short(self, T_vclap_version, "v")]_vars
====
